---- MODULE Spec2Model ----
(***************************************************************************)
(* A model of the computations of the summer-textbook notebooks: the       *)
(* manual explicit-Euler evaluation of the SIR model (notebook 07), the    *)
(* small transition-flow models of notebooks 03 and 04, the Metropolis     *)
(* sampler of notebook 20 and the compartmental models of the notebooks   *)
(* on immunity, transmission, demography and mixing matrices.              *)
(*                                                                         *)
(* Numbers.  The notebooks compute with real-valued quantities.  Here a    *)
(* number is an exact decimal: a sign, a magnitude written as a sequence   *)
(* of limbs (digits to the base 10000, least significant first) and the    *)
(* number of limbs after the decimal point, always kept in normal form, so *)
(* that two numbers are equal exactly when their records are equal.  Sums, *)
(* differences and products are exact; a quotient is exact when it         *)
(* terminates within DivPrec further limbs and is cut there otherwise.     *)
(***************************************************************************)
EXTENDS Integers, Sequences, FiniteSets, TLC

-----------------------------------------------------------------------------
(* Natural numbers of any size, as limb sequences, least significant first *)

\* The base of a limb: four decimal digits
Base == 10000

\* limb i of a, zero beyond its length
Limb(a, i) == IF i >= 1 /\ i <= Len(a) THEN a[i] ELSE 0

\* a without its leading zero limbs
NatNorm(a) ==
    SubSeq(a, 1, Cardinality({i \in 1..Len(a) : \E j \in i..Len(a) : a[j] # 0}))

RECURSIVE NatFromInt(_)
NatFromInt(n) ==
    IF n = 0 THEN <<>> ELSE <<n % Base>> \o NatFromInt(n \div Base)

RECURSIVE NatToInt(_)
NatToInt(a) ==
    IF a = <<>> THEN 0 ELSE Head(a) + Base * NatToInt(Tail(a))

\* the limb sums s with their carries taken in, the carry into a limb looked
\* ahead from the sums below it
NatCarried(s) ==
    NatNorm([i \in 1..Len(s) |->
                (s[i] + (IF \E j \in 1..(i - 1) :
                                /\ s[j] >= Base
                                /\ \A k \in (j + 1)..(i - 1) : s[k] = Base - 1
                         THEN 1 ELSE 0)) % Base])

NatAddTo(a, b, n) == NatCarried([i \in 1..(n + 1) |-> Limb(a, i) + Limb(b, i)])

NatAdd(a, b) == NatAddTo(a, b, IF Len(a) > Len(b) THEN Len(a) ELSE Len(b))

\* -1, 0 or 1 as a < b, a = b or a > b (both in normal form)
NatCmp(a, b) ==
    IF Len(a) # Len(b) THEN (IF Len(a) < Len(b) THEN -1 ELSE 1)
    ELSE IF a = b THEN 0
    ELSE IF \E i \in 1..Len(a) :
                /\ a[i] < b[i]
                /\ \A j \in (i + 1)..Len(a) : a[j] = b[j]
         THEN -1 ELSE 1

\* the limb differences d with their borrows taken out, looked ahead likewise
NatBorrowed(d) ==
    NatNorm([i \in 1..Len(d) |->
                (d[i] - (IF \E j \in 1..(i - 1) :
                                /\ d[j] < 0
                                /\ \A k \in (j + 1)..(i - 1) : d[k] = 0
                         THEN 1 ELSE 0) + Base) % Base])

\* a - b for a >= b
NatSub(a, b) == NatBorrowed([i \in 1..Len(a) |-> a[i] - Limb(b, i)])

\* a * Base^k
NatShift(a, k) ==
    IF a = <<>> THEN a ELSE [i \in 1..k |-> 0] \o a

\* a * d for 0 <= d <= Base
NatMulLimb(a, d) ==
    NatAdd([i \in 1..Len(a) |-> (a[i] * d) % Base],
           <<0>> \o [i \in 1..Len(a) |-> (a[i] * d) \div Base])

RECURSIVE SumOver(_, _, _)
\* f[lo] + ... + f[hi], by halves
SumOver(f, lo, hi) ==
    IF lo > hi THEN 0
    ELSE IF lo = hi THEN f[lo]
    ELSE SumOver(f, lo, (lo + hi) \div 2) + SumOver(f, (lo + hi) \div 2 + 1, hi)

\* the first and the last limb of a that meet a limb of b in column k
ColumnFrom(b, k) == IF k > Len(b) THEN k + 1 - Len(b) ELSE 1

ColumnTo(a, k) == IF k < Len(a) THEN k ELSE Len(a)

\* the column sums low + Base * high with their carries taken in
NatColumns(low, high) ==
    NatAdd(NatAdd([k \in 1..Len(low) |-> low[k] % Base],
                  <<0>> \o [k \in 1..Len(low) |-> low[k] \div Base]),
           NatAdd(<<0>> \o [k \in 1..Len(high) |-> high[k] % Base],
                  <<0, 0>> \o [k \in 1..Len(high) |-> high[k] \div Base]))

\* a * b: the limb products of each column summed in low and high halves
NatMul(a, b) ==
    IF a = <<>> \/ b = <<>> THEN <<>>
    ELSE NatColumns(
             [k \in 1..(Len(a) + Len(b) - 1) |->
                 SumOver([i \in ColumnFrom(b, k)..ColumnTo(a, k) |->
                             (a[i] * b[k + 1 - i]) % Base],
                         ColumnFrom(b, k), ColumnTo(a, k))],
             [k \in 1..(Len(a) + Len(b) - 1) |->
                 SumOver([i \in ColumnFrom(b, k)..ColumnTo(a, k) |->
                             (a[i] * b[k + 1 - i]) \div Base],
                         ColumnFrom(b, k), ColumnTo(a, k))])

\* the largest of qhat, qhat - 1 and qhat - 2 whose product with b is within r
NatDigit(r, b, qhat) ==
    IF NatCmp(NatMulLimb(b, qhat), r) <= 0 THEN qhat
    ELSE IF NatCmp(NatMulLimb(b, qhat - 1), r) <= 0 THEN qhat - 1
    ELSE qhat - 2

\* the estimate of the quotient limb of r by b from their leading limbs; it
\* is at most two above the limb when the leading limb of b is half of Base
\* or more
NatEstimate(r, b) ==
    IF (Limb(r, Len(b) + 1) * Base + Limb(r, Len(b))) \div b[Len(b)] < Base
    THEN (Limb(r, Len(b) + 1) * Base + Limb(r, Len(b))) \div b[Len(b)]
    ELSE Base - 1

NatDigitTake(r, b, d) == <<d, NatSub(r, NatMulLimb(b, d))>>

\* <<quotient limb, remainder>> of r by b, for r < b * Base
NatDigitStep(r, b) == NatDigitTake(r, b, NatDigit(r, b, NatEstimate(r, b)))

RECURSIVE NatDivAt(_, _, _, _, _)
\* long division: s is <<the quotient limb last found, the remainder>>, q the
\* quotient limbs before it, and limb i of a is brought down next
NatDivAt(a, b, i, s, q) ==
    IF i = 0 \/ Len(q) < 0 \/ Len(s[2]) < 0
    THEN <<NatNorm(<<s[1]>> \o q), s[2]>>
    ELSE NatDivAt(a, b, i - 1, NatDigitStep(NatNorm(<<a[i]>> \o s[2]), b),
                  <<s[1]>> \o q)

RECURSIVE NatDivLimbAt(_, _, _, _, _)
\* short division by one limb d, rem being the running remainder
NatDivLimbAt(a, d, i, rem, q) ==
    IF i = 0 \/ rem < 0 \/ Len(q) < 0
    THEN <<NatNorm(q), NatFromInt(rem)>>
    ELSE NatDivLimbAt(a, d, i - 1, (rem * Base + a[i]) % d,
                      <<(rem * Base + a[i]) \div d>> \o q)

\* the remainder of the scaled division brought back by the factor f
NatDivScaled(s, f) == <<s[1], NatDivLimbAt(s[2], f, Len(s[2]), 0, <<>>)[1]>>

\* long division of the scaled a by the scaled b
NatDivBy(a, b, f) == NatDivScaled(NatDivAt(a, b, Len(a), <<0, <<>>>>, <<>>), f)

\* a and b are scaled by f, which brings the leading limb of b to half of
\* Base or more and leaves the quotient as it is
NatDivScale(a, b, f) == NatDivBy(NatMulLimb(a, f), NatMulLimb(b, f), f)

\* <<quotient, remainder>> of a by b, b # 0
NatDivMod(a, b) ==
    IF Len(b) = 1 THEN NatDivLimbAt(a, b[1], Len(a), 0, <<>>)
    ELSE NatDivScale(a, b, Base \div (b[Len(b)] + 1))

-----------------------------------------------------------------------------
(* Exact decimals: (-1)^neg * mag * Base^(-scale) *)

\* limbs after the point that an inexact quotient keeps beyond its operands
DivPrec == 1

\* the number of trailing zero limbs of mag that lie after the point
DecSpare(mag, scale) ==
    Cardinality({i \in 1..(IF scale < Len(mag) THEN scale ELSE Len(mag)) :
                    \A j \in 1..i : mag[j] = 0})

DecStripped(neg, mag, scale, z) ==
    [neg |-> neg, mag |-> SubSeq(mag, z + 1, Len(mag)), scale |-> scale - z]

DecStrip(neg, mag, scale) == DecStripped(neg, mag, scale, DecSpare(mag, scale))

\* the decimal in normal form: no leading zero limbs, no trailing zero limbs
\* after the point, zero unsigned
DecNorm(neg, mag, scale) ==
    IF \A i \in 1..Len(mag) : mag[i] = 0
    THEN [neg |-> FALSE, mag |-> <<>>, scale |-> 0]
    ELSE DecStrip(neg, NatNorm(mag), scale)

\* 10^k for k in 0..3
Pow10(k) == CASE k = 0 -> 1 [] k = 1 -> 10 [] k = 2 -> 100 [] k = 3 -> 1000

\* the decimal n * 10^(-places), e.g. Dec(333, 3) is 0.333
Dec(n, places) ==
    DecNorm(n < 0,
            NatFromInt((IF n < 0 THEN -n ELSE n)
                       * Pow10(4 * ((places + 3) \div 4) - places)),
            (places + 3) \div 4)

Zero == [neg |-> FALSE, mag |-> <<>>, scale |-> 0]

One == [neg |-> FALSE, mag |-> <<1>>, scale |-> 0]

DecSign(a) == IF a.mag = <<>> THEN 0 ELSE IF a.neg THEN -1 ELSE 1

DecNeg(a) == IF a.mag = <<>> THEN a ELSE [a EXCEPT !.neg = ~a.neg]

\* |a|
DecAbs(a) == [a EXCEPT !.neg = FALSE]

\* a + b from their magnitudes ma and mb brought to the scale s
DecAddAt(a, b, ma, mb, s) ==
    DecNorm(IF a.neg = b.neg \/ NatCmp(ma, mb) >= 0 THEN a.neg ELSE b.neg,
            IF a.neg = b.neg THEN NatAdd(ma, mb)
            ELSE IF NatCmp(ma, mb) >= 0 THEN NatSub(ma, mb)
            ELSE NatSub(mb, ma),
            s)

DecAddTo(a, b, s) ==
    DecAddAt(a, b, NatShift(a.mag, s - a.scale), NatShift(b.mag, s - b.scale), s)

DecAdd(a, b) ==
    IF a.scale < 0 \/ b.scale < 0 THEN Zero
    ELSE DecAddTo(a, b, IF a.scale > b.scale THEN a.scale ELSE b.scale)

DecSub(a, b) == DecAdd(a, DecNeg(b))

DecMul(a, b) ==
    IF a.mag = <<>> \/ b.mag = <<>> THEN Zero
    ELSE DecNorm(a.neg # b.neg, NatMul(a.mag, b.mag), a.scale + b.scale)

\* a / b for b # 0, cut towards zero to k + a.scale - b.scale limbs after the
\* point
DecDivTo(a, b, k) ==
    IF a.mag = <<>> \/ b.scale < 0 THEN Zero
    ELSE DecNorm(a.neg # b.neg, NatDivMod(NatShift(a.mag, k), b.mag)[1],
            k + a.scale - b.scale)

\* a / b for b # 0: exact when the quotient terminates within DivPrec limbs
\* beyond those of the operands, cut towards zero there otherwise
DecDiv(a, b) ==
    DecDivTo(a, b, DivPrec + (IF b.scale > a.scale THEN b.scale - a.scale ELSE 0))

DecLt(a, b) == DecSign(DecSub(a, b)) < 0

DecLe(a, b) == DecSign(DecSub(a, b)) <= 0

\* int(x): the whole part, towards zero
DecTrunc(a) ==
    (IF a.neg THEN -1 ELSE 1) * NatToInt(SubSeq(a.mag, a.scale + 1, Len(a.mag)))

\* limbs after the point kept by exp, log and their quotients
Prec == 4

\* a cut towards zero to p limbs after the point
DecCut(a, p) ==
    IF a.scale <= p THEN a
    ELSE DecNorm(a.neg, SubSeq(a.mag, a.scale - p + 1, Len(a.mag)), p)

\* a / b for b # 0, cut towards zero to p limbs after the point
DecQuot(a, b, p) == DecDivTo(DecCut(a, p), b, p - DecCut(a, p).scale + b.scale)

\* s is <<term, sum>>: the term is added to the sum and followed by the
\* next one, term * x / n
ExpTerm(x, n, s) ==
    IF s[1].mag = <<>> THEN s
    ELSE <<DecQuot(DecMul(s[1], x), Dec(n, 0), Prec), DecAdd(s[2], s[1])>>

ExpTerms2(x, n, s) ==
    IF Len(s) < 0 THEN s ELSE ExpTerm(x, n + 1, ExpTerm(x, n, s))

ExpTerms4(x, n, s) ==
    IF Len(s) < 0 THEN s ELSE ExpTerms2(x, n + 2, ExpTerms2(x, n, s))

RECURSIVE ExpSeries(_, _, _)
\* sum + term * (1 + x/n + x^2/(n(n+1)) + ...), four terms at a time, until
\* the terms vanish
ExpSeries(x, n, s) ==
    IF s[1].mag = <<>> THEN s[2] ELSE ExpSeries(x, n + 4, ExpTerms4(x, n, s))

RECURSIVE ExpHalve(_, _)
\* <<x / 2^k, k>> for the least k that brings x into [-1/2, 1/2]
ExpHalve(x, k) ==
    IF DecLe(DecAbs(x), Dec(5, 1)) \/ k < 0 THEN <<x, k>>
    ELSE ExpHalve(DecCut(DecMul(x, Dec(5, 1)), Prec), k + 1)

RECURSIVE ExpSquare(_, _)
\* v^(2^k)
ExpSquare(v, k) ==
    IF k = 0 \/ v.scale < 0 THEN v
    ELSE ExpSquare(DecCut(DecMul(v, v), Prec), k - 1)

\* exp of the halved argument h[1], squared back h[2] times
ExpHalved(h) ==
    IF h[2] < 0 THEN Zero ELSE ExpSquare(ExpSeries(h[1], 1, <<One, Zero>>), h[2])

\* np.exp(x) for x <= 0, to about Prec limbs: halve the argument down to
\* [-1/2, 0], sum the series there, square back
Exp(x) ==
    IF x.neg /\ NatCmp(SubSeq(x.mag, x.scale + 1, Len(x.mag)),
                       NatFromInt(10 * Prec)) >= 0
    THEN Zero
    ELSE ExpHalved(ExpHalve(x, 0))

\* s is <<power, sum>>: power / n is added to the sum and the power is
\* followed by the next one, power * z2
AtanhTerm(z2, n, s) ==
    IF s[1].mag = <<>> THEN s
    ELSE <<DecCut(DecMul(s[1], z2), Prec),
           DecAdd(s[2], DecQuot(s[1], Dec(n, 0), Prec))>>

AtanhTerms2(z2, n, s) ==
    IF Len(s) < 0 THEN s ELSE AtanhTerm(z2, n + 2, AtanhTerm(z2, n, s))

AtanhTerms4(z2, n, s) ==
    IF Len(s) < 0 THEN s ELSE AtanhTerms2(z2, n + 4, AtanhTerms2(z2, n, s))

RECURSIVE AtanhSeries(_, _, _)
\* sum + power/n + power*z2/(n+2) + ..., four terms at a time, until the
\* powers vanish
AtanhSeries(z2, n, s) ==
    IF s[1].mag = <<>> THEN s[2]
    ELSE AtanhSeries(z2, n + 8, AtanhTerms4(z2, n, s))

\* 2 atanh(z)
LnOf(z) ==
    IF z.scale < 0 THEN z
    ELSE DecMul(Dec(2, 0), AtanhSeries(DecCut(DecMul(z, z), Prec), 1, <<z, Zero>>))

\* log(u) for u near 1, as 2 atanh((u - 1)/(u + 1))
LnNear(u) == LnOf(DecQuot(DecSub(u, One), DecAdd(u, One), Prec))

RECURSIVE LnDouble(_, _)
\* <<u * 2^m, m>> for the least m that brings u up to 0.75 or more
LnDouble(u, m) ==
    IF ~DecLt(u, Dec(75, 2)) \/ m < 0 THEN <<u, m>>
    ELSE LnDouble(DecMul(u, Dec(2, 0)), m + 1)

\* log(1/2), worked out once
LnHalf == LnNear(Dec(5, 1))

\* log(d[1]) - d[2] * log(2), log(2) being -log(1/2)
LnDoubled(d) ==
    IF d[2] < 0 THEN Zero
    ELSE DecAdd(LnNear(d[1]), DecMul(Dec(d[2], 0), LnHalf))

\* np.log(u) for 0 < u <= 1, to about Prec limbs: double u up to [0.75, 1.5)
Ln(u) == LnDoubled(LnDouble(u, 0))

\* the whole part of y >= 0
DecWhole(y) == DecNorm(FALSE, SubSeq(y.mag, y.scale + 1, Len(y.mag)), 0)

\* the whole number w or the one above it, as the fraction f is under or over
\* a half, the even one of the two at a half
RoundPick(w, f) ==
    IF DecLt(Dec(5, 1), f) \/ (f = Dec(5, 1) /\ Limb(w.mag, 1) % 2 = 1)
    THEN DecAdd(w, One)
    ELSE w

RoundWhole(y, w) == IF w.scale < 0 THEN w ELSE RoundPick(w, DecSub(y, w))

RoundScaled(y) == IF y.scale < 0 THEN y ELSE RoundWhole(y, DecWhole(y))

RoundSigned(neg, r) == DecNorm(neg, r.mag, r.scale)

\* round(x, places) for places in 0..3: to the nearest multiple of
\* 10^(-places), halves to the even one
Round(x, places) ==
    IF x.mag = <<>> THEN Zero
    ELSE RoundSigned(x.neg,
                DecMul(RoundScaled(DecMul(DecAbs(x), Dec(Pow10(places), 0))),
                       Dec(1, places)))

-----------------------------------------------------------------------------
(* State *)

VARIABLES
    model_config,         \* notebook 07: population, seed, end_time, time_step
    parameters,           \* notebook 07: contact_rate, recovery
    pc,                   \* "not_run", "running" or "completed"
    num_steps,            \* number of rows of the output table
    times,                \* evaluation times, indexed from 0
    manual_calcs,         \* compartment sizes, one row per time, indexed from 0
    t_idx,                \* index of the row the loop filled last
    explicit_outputs_df   \* the output table, once the loop has ended

sir_vars == <<model_config, parameters, pc, num_steps, times, manual_calcs,
              t_idx, explicit_outputs_df>>

VARIABLES
    model_kind,           \* notebooks 03, 04: "single" or "competing"
    config,               \* population, start_time, end_time
    flow_parameters,      \* the rate of each transition flow, by name
    transition_model,     \* the model object, once built
    run_pc,               \* "declared", "built", "running", "ran" or "read"
    run_idx,              \* index of the last time step the run has solved
    run_sizes,            \* the sizes the run has solved, by time index
    outputs               \* get_outputs_df(): the table read after the run

flow_vars == <<model_kind, config, flow_parameters, transition_model, run_pc,
               run_idx, run_sizes, outputs>>

VARIABLES
    risk_value,           \* notebook 04: the risk reached by risk_time
    risk_time,            \* the time the risk is read at
    dec_places,           \* decimal places kept by round()
    recalculated_rate,    \* the rate worked back from the risk
    recalculated_risk,    \* the risk worked forward again from that rate
    risk_pc               \* "given", "rate" or "risk"

risk_vars == <<risk_value, risk_time, dec_places, recalculated_rate,
               recalculated_risk, risk_pc>>

VARIABLES
    mcmc_pc,              \* notebook 20: the sampler's position
    n_iter,               \* number of iterations asked for
    initial_parameters,   \* the parameter set the chain is started from
    i_run,                \* index of the iteration under way
    current_parameters,   \* the parameter set the chain is at
    current_acceptance_quantity,
    proposed_parameters,  \* the parameter set proposed in this iteration
    proposed_acceptance_quantity,
    accept_proba,         \* exp(proposed - current), when it was computed
    accept,               \* 1 or 0, the decision of this iteration
    mcmc_record,          \* the table of recorded rows, by iteration
    model_outputs,        \* the sampled model's outputs of its last run
    model_runs            \* number of runs of the sampled model so far

mcmc_vars == <<mcmc_pc, n_iter, initial_parameters, i_run, current_parameters,
               current_acceptance_quantity, proposed_parameters,
               proposed_acceptance_quantity, accept_proba, accept,
               mcmc_record, model_outputs, model_runs>>

VARIABLES
    epi_notebook,         \* which notebook's cells are run
    epi_config,           \* model_config: population, seed, end_time
    epi_parameters,       \* the parameters handed to run(), by name
    epi_pc,               \* the cell run last
    epi_models,           \* the model objects built so far, by variable name
    epi_values,           \* the solved compartment sizes of each model run
    epi_error             \* the message of a failed assertion, "" if none

epi_vars == <<epi_notebook, epi_config, epi_parameters, epi_pc, epi_models,
              epi_values, epi_error>>

vars == <<sir_vars, flow_vars, risk_vars, mcmc_vars, epi_vars>>

\* what a step of the manual evaluation leaves alone
not_sir_vars == <<flow_vars, risk_vars, mcmc_vars, epi_vars>>

\* what a step of a transition model leaves alone
not_flow_vars == <<sir_vars, risk_vars, mcmc_vars, epi_vars>>

\* what a step of the risk and rate conversion leaves alone
not_risk_vars == <<sir_vars, flow_vars, mcmc_vars, epi_vars>>

\* what a step of the Metropolis sampler leaves alone
not_mcmc_vars == <<sir_vars, flow_vars, risk_vars, epi_vars>>

\* what a cell of the compartmental-model notebooks leaves alone
not_epi_vars == <<sir_vars, flow_vars, risk_vars, mcmc_vars>>

-----------------------------------------------------------------------------
(* Notebook 07: the inputs explored *)

\* Longest end_time explored
MaxEndTime == 3

\* Most integration steps in one run
MaxSteps == 3

Populations == {Dec(1000, 0), Dec(40, 0)}

Seeds == {Dec(10, 0), Dec(1, 0)}

EndTimes == {Dec(n, 0) : n \in 1..MaxEndTime}

TimeSteps == {Dec(1, 0), Dec(5, 1), Dec(15, 1), Dec(2, 0)}

ContactRates == {Dec(1, 0), Dec(10, 0), Dec(5, 1)}

Recoveries == {Dec(333, 3), Zero}

-----------------------------------------------------------------------------
(* Notebook 07: the manual explicit-Euler evaluation *)

\* num_steps = int(time_period / time_step) + 1
NumSteps(cfg) ==
    DecTrunc(DecDiv(cfg.end_time, cfg.time_step)) + 1

\* Linspace without its endpoint: num times spaced stop / num apart
MutLinspace(stop, num) ==
    LET step == IF num > 0 THEN DecDiv(stop, Dec(num, 0)) ELSE Zero
    IN  [k \in 0..(num - 1) |-> DecMul(Dec(k, 0), step)]

\* np.linspace(0.0, stop, num): num evenly spaced times, the last one stop
Linspace(stop, num) ==
    LET step == IF num > 1 THEN DecDiv(stop, Dec(num - 1, 0)) ELSE Zero
    IN  [k \in 0..(num - 1) |->
            IF num > 1 /\ k = num - 1 THEN stop ELSE DecMul(Dec(k, 0), step)]

\* np.zeros(3)
Zeros3 == [i \in 0..2 |-> Zero]

\* the initial conditions: susceptible, infectious, recovered
InitialRow(cfg) ==
    [i \in 0..2 |-> CASE i = 0 -> DecSub(cfg.population, cfg.seed)
                      [] i = 1 -> cfg.seed
                      [] i = 2 -> Zero]

\* compartment_sizes.sum()
RowSum(compartment_sizes) ==
    DecAdd(DecAdd(compartment_sizes[0], compartment_sizes[1]),
           compartment_sizes[2])

\* ForceOfInfection not divided by the population
MutForceOfInfection(contact_rate, n_infect, n_pop) ==
    DecMul(contact_rate, n_infect)

\* force_of_infection = contact_rate * n_infect / n_pop
ForceOfInfection(contact_rate, n_infect, n_pop) ==
    DecDiv(DecMul(contact_rate, n_infect), n_pop)

\* infection_flow_rate = force_of_infection * n_suscept
InfectionFlowRate(params, compartment_sizes) ==
    DecMul(ForceOfInfection(params.contact_rate, compartment_sizes[1],
                            RowSum(compartment_sizes)),
           compartment_sizes[0])

\* recovery_flow_rate = recovery * n_infect
RecoveryFlowRate(params, compartment_sizes) ==
    DecMul(params.recovery, compartment_sizes[1])

\* ApplyInfection crediting the infectious without debiting the susceptible
MutApplyInfection(flow_rates, infection_flow_rate) ==
    [flow_rates EXCEPT ![1] = DecAdd(@, infection_flow_rate)]

\* flow_rates[0] -= infection_flow_rate; flow_rates[1] += infection_flow_rate
ApplyInfection(flow_rates, infection_flow_rate) ==
    [flow_rates EXCEPT ![0] = DecSub(@, infection_flow_rate),
                       ![1] = DecAdd(@, infection_flow_rate)]

\* flow_rates[1] -= recovery_flow_rate; flow_rates[2] += recovery_flow_rate
ApplyRecovery(flow_rates, recovery_flow_rate) ==
    [flow_rates EXCEPT ![1] = DecSub(@, recovery_flow_rate),
                       ![2] = DecAdd(@, recovery_flow_rate)]

\* the net flow rate of each compartment, from the sizes of the previous step
FlowRates(params, compartment_sizes) ==
    ApplyRecovery(
        ApplyInfection(Zeros3, InfectionFlowRate(params, compartment_sizes)),
        RecoveryFlowRate(params, compartment_sizes))

\* NextSizes without the step size
MutNextSizesNoStep(compartment_sizes, flow_rates, time_step) ==
    [i \in 0..2 |-> DecAdd(compartment_sizes[i], flow_rates[i])]

\* NextSizes with negative sizes raised to zero
MutNextSizesClamp(compartment_sizes, flow_rates, time_step) ==
    [i \in 0..2 |->
        LET x == DecAdd(compartment_sizes[i], DecMul(flow_rates[i], time_step))
        IN  IF DecLt(x, Zero) THEN Zero ELSE x]

\* compartment_sizes + flow_rates * time_step
NextSizes(compartment_sizes, flow_rates, time_step) ==
    [i \in 0..2 |-> DecAdd(compartment_sizes[i], DecMul(flow_rates[i], time_step))]

\* Record through the view of the previous row, which it overwrites as well
MutRecord(calcs, idx, row) ==
    [calcs EXCEPT ![idx] = row, ![idx - 1] = row]

\* manual_calcs[t_idx] = row: the other rows are left as they are
Record(calcs, idx, row) ==
    [calcs EXCEPT ![idx] = row]

\* The declared configuration and parameters, nothing evaluated yet
SirInit ==
    /\ model_config \in {c \in [population : Populations, seed : Seeds,
                                end_time : EndTimes, time_step : TimeSteps] :
                            /\ DecLe(c.seed, c.population)
                            /\ NumSteps(c) - 1 <= MaxSteps}
    /\ parameters \in [contact_rate : ContactRates, recovery : Recoveries]
    /\ pc = "not_run"
    /\ num_steps = 0
    /\ times = <<>>
    /\ manual_calcs = <<>>
    /\ t_idx = 0
    /\ explicit_outputs_df = <<>>

\* the cell has not been run
CanPrepare == pc = "not_run"

\* enumerate(times[1:], 1) has a further index to hand out
CanStep == pc = "running" /\ t_idx + 1 <= num_steps - 1

\* CanFinish leaving the loop one pass early
MutCanFinish == pc = "running" /\ t_idx >= num_steps - 2

\* enumerate(times[1:], 1) is exhausted
CanFinish == pc = "running" /\ t_idx = num_steps - 1

\* The evaluation times, the table of zeros and the initial conditions
Prepare ==
    /\ CanPrepare
    /\ num_steps' = NumSteps(model_config)
    /\ times' = Linspace(model_config.end_time, num_steps')
    /\ manual_calcs' = [k \in 0..(num_steps' - 1) |->
                           IF k = 0 THEN InitialRow(model_config) ELSE Zeros3]
    /\ t_idx' = 0
    /\ pc' = "running"
    /\ UNCHANGED <<model_config, parameters, explicit_outputs_df>>
    /\ UNCHANGED not_sir_vars

\* One pass of the loop over times[1:]
ManualStep ==
    /\ CanStep
    /\ t_idx' = t_idx + 1
    /\ LET compartment_sizes == manual_calcs[t_idx' - 1]
           flow_rates == FlowRates(parameters, compartment_sizes)
       IN  manual_calcs' =
               Record(manual_calcs, t_idx',
                      NextSizes(compartment_sizes, flow_rates,
                                model_config.time_step))
    /\ UNCHANGED <<model_config, parameters, pc, num_steps, times,
                   explicit_outputs_df>>
    /\ UNCHANGED not_sir_vars

\* pd.DataFrame(manual_calcs, index=times), after the loop
Finish ==
    /\ CanFinish
    /\ explicit_outputs_df' =
           [k \in 0..(num_steps - 1) |->
               [index |-> times[k], row |-> manual_calcs[k]]]
    /\ pc' = "completed"
    /\ UNCHANGED <<model_config, parameters, num_steps, times, manual_calcs, t_idx>>
    /\ UNCHANGED not_sir_vars

\* the manual evaluation cell is not part of the run
SirIdle ==
    /\ model_config = <<>>
    /\ parameters = <<>>
    /\ pc = "idle"
    /\ num_steps = 0
    /\ times = <<>>
    /\ manual_calcs = <<>>
    /\ t_idx = 0
    /\ explicit_outputs_df = <<>>

-----------------------------------------------------------------------------
(* Notebooks 03 and 04: the transition-flow models, run with Euler steps *)

\* Longest end_time explored
MaxFlowEnd == 20

\* the step between two solved times
FlowTimeStep == Dec(1, 0)

FlowPopulations == {Dec(1, 0), Dec(1000, 0)}

SingleRates == {Dec(1, 1), Dec(5, 1), Dec(1, 0), Dec(15, 1)}

CompetingRates == {Dec(1, 2), Dec(2, 2), Dec(5, 1)}

\* get_single_transition_model(model_config)
GetSingleTransitionModel(cfg) ==
    [compartments |-> <<"source", "destination">>,
     times |-> <<cfg.start_time, cfg.end_time>>,
     initial_population |->
         [c \in {"source", "destination"} |->
             IF c = "source" THEN cfg.population ELSE Zero],
     flows |-> << [name |-> "transition",
                   fractional_rate |-> "transition_rate",
                   source |-> "source",
                   dest |-> "destination"] >>]

\* get_competing_transition_model(model_config)
GetCompetingTransitionModel(cfg) ==
    [compartments |-> <<"source", "destination_0", "destination_1">>,
     times |-> <<cfg.start_time, cfg.end_time>>,
     initial_population |->
         [c \in {"source", "destination_0", "destination_1"} |->
             IF c = "source" THEN cfg.population ELSE Zero],
     flows |-> << [name |-> "transition_0",
                   fractional_rate |-> "transition_0",
                   source |-> "source",
                   dest |-> "destination_0"],
                  [name |-> "transition_1",
                   fractional_rate |-> "transition_1",
                   source |-> "source",
                   dest |-> "destination_1"] >>]

\* a transition flow moves its rate times the size of its source
TransitionFlowRate(flow, params, sizes) ==
    DecMul(params[flow.fractional_rate], sizes[flow.source])

\* ApplyFlow taking the rate alone, not per capita
MutApplyFlow(net, flow, params, sizes) ==
    [net EXCEPT ![flow.source] = DecSub(@, params[flow.fractional_rate]),
                ![flow.dest] = DecAdd(@, params[flow.fractional_rate])]

\* ApplyFlow crediting the source and debiting the destination
MutApplyFlowReversed(net, flow, params, sizes) ==
    [net EXCEPT ![flow.source] = DecAdd(@, TransitionFlowRate(flow, params, sizes)),
                ![flow.dest] = DecSub(@, TransitionFlowRate(flow, params, sizes))]

\* one flow taken from its source and added to its destination
ApplyFlow(net, flow, params, sizes) ==
    [net EXCEPT ![flow.source] = DecSub(@, TransitionFlowRate(flow, params, sizes)),
                ![flow.dest] = DecAdd(@, TransitionFlowRate(flow, params, sizes))]

RECURSIVE MutNetFlowsFrom(_, _, _, _, _)
\* NetFlowsFrom evaluating each flow after the flows before it have moved
MutNetFlowsFrom(flows, i, params, sizes, net) ==
    IF i > Len(flows) THEN net
    ELSE MutNetFlowsFrom(flows, i + 1, params, sizes,
             ApplyFlow(net, flows[i], params,
                       [c \in DOMAIN sizes |-> DecAdd(sizes[c], net[c])]))

RECURSIVE NetFlowsFrom(_, _, _, _, _)
NetFlowsFrom(flows, i, params, sizes, net) ==
    IF i > Len(flows) THEN net
    ELSE NetFlowsFrom(flows, i + 1, params, sizes,
                      ApplyFlow(net, flows[i], params, sizes))

\* the net flow rate of every compartment, all flows evaluated on sizes
NetFlows(model, params, sizes) ==
    NetFlowsFrom(model.flows, 1, params, sizes,
                 [c \in DOMAIN sizes |-> Zero])

\* the sizes one Euler step after sizes
EulerStep(model, params, sizes) ==
    LET net == NetFlows(model, params, sizes)
    IN  [c \in DOMAIN sizes |-> DecAdd(sizes[c], DecMul(net[c], FlowTimeStep))]

\* the number of steps from start_time to end_time
RunSteps(model) ==
    DecTrunc(DecDiv(DecSub(model.times[2], model.times[1]), FlowTimeStep))

\* The declared configuration and parameters of one of the two models
FlowInit ==
    /\ model_kind \in {"single", "competing"}
    /\ config \in [population : FlowPopulations,
                   start_time : {Zero},
                   end_time : {Dec(MaxFlowEnd, 0)}]
    /\ flow_parameters \in
           IF model_kind = "single"
           THEN [{"transition_rate"} -> SingleRates]
           ELSE [{"transition_0", "transition_1"} -> CompetingRates]
    /\ transition_model = <<>>
    /\ run_pc = "declared"
    /\ run_idx = 0
    /\ run_sizes = <<>>
    /\ outputs = <<>>

\* the transition models are not part of the run
FlowIdle ==
    /\ model_kind = "none"
    /\ config = <<>>
    /\ flow_parameters = <<>>
    /\ transition_model = <<>>
    /\ run_pc = "idle"
    /\ run_idx = 0
    /\ run_sizes = <<>>
    /\ outputs = <<>>

\* transition_model = get_single_transition_model(config)
BuildSingle ==
    /\ run_pc = "declared"
    /\ model_kind = "single"
    /\ transition_model' = GetSingleTransitionModel(config)
    /\ run_pc' = "built"
    /\ UNCHANGED <<model_kind, config, flow_parameters, run_idx, run_sizes, outputs>>
    /\ UNCHANGED not_flow_vars

\* transition_model = get_competing_transition_model(config)
BuildCompeting ==
    /\ run_pc = "declared"
    /\ model_kind = "competing"
    /\ transition_model' = GetCompetingTransitionModel(config)
    /\ run_pc' = "built"
    /\ UNCHANGED <<model_kind, config, flow_parameters, run_idx, run_sizes, outputs>>
    /\ UNCHANGED not_flow_vars

\* transition_model.run(parameters): the initial population at the start time
RunBegin ==
    /\ run_pc = "built"
    /\ run_sizes' = [k \in {0} |-> transition_model.initial_population]
    /\ run_idx' = 0
    /\ run_pc' = "running"
    /\ UNCHANGED <<model_kind, config, flow_parameters, transition_model, outputs>>
    /\ UNCHANGED not_flow_vars

\* transition_model.run(parameters): one more time step solved
RunStep ==
    /\ run_pc = "running"
    /\ run_idx < RunSteps(transition_model)
    /\ run_idx' = run_idx + 1
    /\ run_sizes' =
           [k \in 0..run_idx' |->
               IF k <= run_idx THEN run_sizes[k]
               ELSE EulerStep(transition_model, flow_parameters, run_sizes[run_idx])]
    /\ UNCHANGED <<model_kind, config, flow_parameters, transition_model, run_pc,
                   outputs>>
    /\ UNCHANGED not_flow_vars

\* transition_model.run(parameters) returns
RunEnd ==
    /\ run_pc = "running"
    /\ run_idx = RunSteps(transition_model)
    /\ run_pc' = "ran"
    /\ UNCHANGED <<model_kind, config, flow_parameters, transition_model, run_idx,
                   run_sizes, outputs>>
    /\ UNCHANGED not_flow_vars

\* outputs = transition_model.get_outputs_df(): the sizes, indexed by time
GetOutputsDf ==
    /\ run_pc = "ran"
    /\ outputs' =
           [k \in 0..run_idx |->
               [index |-> DecAdd(transition_model.times[1],
                                 DecMul(Dec(k, 0), FlowTimeStep)),
                row |-> run_sizes[k]]]
    /\ run_pc' = "read"
    /\ UNCHANGED <<model_kind, config, flow_parameters, transition_model, run_idx,
                   run_sizes>>
    /\ UNCHANGED not_flow_vars

-----------------------------------------------------------------------------
(* Notebook 04: working a rate back from a risk, and the risk forward again *)

\* risks in [0, 1), 0.632 being the one the notebook reads at time 10
Risks ==
    {Zero, Dec(1, 3), Dec(89, 4), Dec(5, 2), Dec(1, 1), Dec(25, 2), Dec(5, 1),
     Dec(632, 3), Dec(9, 1), Dec(99, 2), Dec(999, 3)}

RiskTimes == {Dec(5, 1), Dec(1, 0), Dec(2, 0), Dec(10, 0), Dec(100, 0)}

\* rate = -log(1 - risk) / t without the division by t
MutRateFromRisk(risk, t) ==
    DecNeg(Ln(DecSub(Dec(1, 0), risk)))

\* rate = -log(1 - risk) / t
RateFromRisk(risk, t) ==
    DecQuot(DecNeg(Ln(DecSub(Dec(1, 0), risk))), t, Prec)

\* risk = 1 - e^(-rate * t)
RiskFromRate(rate, t) ==
    DecSub(Dec(1, 0), Exp(DecNeg(DecMul(rate, t))))

RiskInit ==
    /\ risk_value \in Risks
    /\ risk_time \in RiskTimes
    /\ dec_places = 3
    /\ recalculated_rate = Zero
    /\ recalculated_risk = Zero
    /\ risk_pc = "given"

\* the conversion is not part of the run
RiskIdle ==
    /\ risk_value = Zero
    /\ risk_time = Zero
    /\ dec_places = 3
    /\ recalculated_rate = Zero
    /\ recalculated_risk = Zero
    /\ risk_pc = "idle"

\* recalculated_rate = round(-np.log(1. - risk_value) / risk_time, dec_places)
RecalculateRate ==
    /\ risk_pc = "given"
    /\ recalculated_rate' = Round(RateFromRisk(risk_value, risk_time), dec_places)
    /\ risk_pc' = "rate"
    /\ UNCHANGED <<risk_value, risk_time, dec_places, recalculated_risk>>
    /\ UNCHANGED not_risk_vars

\* the risk of reaching the destination by risk_time at the recalculated rate
RecalculateRisk ==
    /\ risk_pc = "rate"
    /\ recalculated_risk' = RiskFromRate(recalculated_rate, risk_time)
    /\ risk_pc' = "risk"
    /\ UNCHANGED <<risk_value, risk_time, dec_places, recalculated_rate>>
    /\ UNCHANGED not_risk_vars

-----------------------------------------------------------------------------
(* Notebook 20: calibration with the Metropolis algorithm *)

\* largest n_iter explored
MaxIter == 2

\* the float -inf, the logarithm of a zero density
NegInf == [neg |-> TRUE, mag |-> <<>>, scale |-> -1]

\* the float nan, which fills a row of the record until it is written
NaN == [neg |-> FALSE, mag |-> <<>>, scale |-> -2]

\* a + b of floats that may be -inf
InfAdd(a, b) == IF a = NegInf \/ b = NegInf THEN NegInf ELSE DecAdd(a, b)

\* a >= b of floats that may be -inf
InfGe(a, b) ==
    IF b = NegInf THEN TRUE ELSE IF a = NegInf THEN FALSE ELSE DecLe(b, a)

\* data["active_cases"]: the times observed, in order, and the values
DataTimes == <<60, 80, 100, 120, 140, 160, 180, 200>>

ActiveCases ==
    (60 :> 3000) @@ (80 :> 8500) @@ (100 :> 21000) @@ (120 :> 40000)
    @@ (140 :> 44000) @@ (160 :> 30000) @@ (180 :> 16000) @@ (200 :> 7000)

\* the parameter sets a proposal is drawn from: norm.rvs can give any value,
\* a contact_rate outside the prior's [0, 0.5] among them
ProposalSets ==
    [contact_rate : {Dec(2, 1), Dec(6, 1)},
     recovery : {Dec(15, 2), Dec(2, 1)}]

\* initial_parameters: the notebook's, and a set the chain can be rejected from
InitialSets ==
    {[contact_rate |-> Dec(15, 2), recovery |-> Dec(1, 1)],
     [contact_rate |-> Dec(2, 1), recovery |-> Dec(15, 2)]}

\* sir_model.run(parameter_set) and get_outputs_df()["infectious"] at the
\* observed times: the solver is the library's, its results are tabulated
\* here to the nearest whole number for population 1e6, seed 100
InfectiousAt(parameter_set) ==
    CASE parameter_set.contact_rate = Dec(15, 2) /\ parameter_set.recovery = Dec(1, 1) ->
            <<1978, 5219, 13105, 29240, 51389, 63082, 53506, 34659>>
      [] parameter_set.contact_rate = Dec(2, 1) /\ parameter_set.recovery = Dec(15, 2) ->
            <<1956, 5045, 11970, 23574, 33437, 31589, 21190, 11488>>
      [] parameter_set.contact_rate = Dec(2, 1) /\ parameter_set.recovery = Dec(2, 1) ->
            <<99, 99, 98, 97, 96, 95, 93, 92>>
      [] parameter_set.contact_rate = Dec(6, 1) /\ parameter_set.recovery = Dec(15, 2) ->
            <<4509, 285, 18, 1, 0, 0, 0, 0>>
      [] parameter_set.contact_rate = Dec(6, 1) /\ parameter_set.recovery = Dec(2, 1) ->
            <<2044, 77, 3, 0, 0, 0, 0, 0>>

\* model.run(parameter_set): the outputs the model holds afterwards, by time
ModelRun(parameter_set) ==
    [t \in {DataTimes[k] : k \in 1..Len(DataTimes)} |->
        Dec(InfectiousAt(parameter_set)[CHOOSE k \in 1..Len(DataTimes) : DataTimes[k] = t], 0)]

\* stats.uniform.logpdf(x, loc, scale)
UniformLogpdf(x, loc, scale) ==
    IF DecLe(loc, x) /\ DecLe(x, DecAdd(loc, scale)) THEN DecNeg(Ln(scale))
    ELSE NegInf

\* loc and scale of the gamma prior of the recovery rate
GammaLoc == Dec(1, 1)

GammaScale == Dec(1, 1)

\* the logarithm of the scale of the gamma prior, worked out once
LogGammaScale == Ln(GammaScale)

\* the log density of the standard gamma distribution of shape 2 at y > 0,
\* less the logarithm of the scale
GammaLog(y) == DecSub(DecSub(Ln(y), y), LogGammaScale)

\* stats.gamma.logpdf(x, a=2.0, loc=0.1, scale=0.1)
GammaLogpdf(x) ==
    IF DecLt(GammaLoc, x) THEN GammaLog(DecDiv(DecSub(x, GammaLoc), GammaScale))
    ELSE NegInf

\* evaluate_log_priors(proposed_parameters)
EvaluateLogPriors(proposed) ==
    InfAdd(InfAdd(Zero, UniformLogpdf(proposed.contact_rate, Zero, Dec(5, 1))),
           GammaLogpdf(proposed.recovery))

\* the scale of the normal likelihood
LikelihoodScale == Dec(10000, 0)

\* log(sqrt(2 pi)), to sixteen places
LogSqrtTwoPi == DecAdd(Dec(91893853, 8), Dec(3204673, 15))

\* the part of stats.norm.logpdf that the scale alone decides
NormLogScale == DecSub(Ln(DecDiv(One, LikelihoodScale)), LogSqrtTwoPi)

\* -z^2 / 2 plus the part the scale decides
NormLogOf(z) == DecAdd(DecNeg(DecMul(Dec(5, 1), DecMul(z, z))), NormLogScale)

\* stats.norm.logpdf(x, loc, scale=1e4)
NormLogpdf(x, loc) == NormLogOf(DecDiv(DecSub(x, loc), LikelihoodScale))

RECURSIVE LogLikelihoodOver(_, _, _)
\* the terms of the log-likelihood for the observed times lo..hi, by halves
LogLikelihoodOver(modelled_active, lo, hi) ==
    IF lo = hi
    THEN NormLogpdf(Dec(ActiveCases[DataTimes[lo]], 0), modelled_active[DataTimes[lo]])
    ELSE DecAdd(LogLikelihoodOver(modelled_active, lo, (lo + hi) \div 2),
                LogLikelihoodOver(modelled_active, (lo + hi) \div 2 + 1, hi))

\* evaluate_log_likelihood, from the outputs of the run it has made
EvaluateLogLikelihood(modelled_active) ==
    LogLikelihoodOver(modelled_active, 1, Len(DataTimes))

\* evaluate_acceptance_quantity, from the outputs of the run it has made
EvaluateAcceptanceQuantity(modelled_active, proposed) ==
    InfAdd(EvaluateLogPriors(proposed), EvaluateLogLikelihood(modelled_active))

\* np.exp(proposed_acceptance_quantity - current_acceptance_quantity), the
\* proposed quantity being the lower one
AcceptProba(proposed_quantity, current_quantity) ==
    IF proposed_quantity = NegInf THEN Zero
    ELSE Exp(DecSub(proposed_quantity, current_quantity))

\* stats.binom.rvs(1, p): 1 can be drawn unless p is 0, 0 unless p is 1
BinomRvs(p) == {a \in {0, 1} : (a = 1 => DecLt(Zero, p)) /\ (a = 0 => DecLt(p, One))}

\* every row is recorded as a change of position
MutRecordRow(params, quantity, changed) ==
    [contact_rate |-> params.contact_rate, recovery |-> params.recovery,
     acceptance_quantity |-> quantity, changed_position |-> One]

\* the row recorded for an iteration
RecordRow(params, quantity, changed) ==
    [contact_rate |-> params.contact_rate, recovery |-> params.recovery,
     acceptance_quantity |-> quantity,
     changed_position |-> IF changed = 1 THEN One ELSE Zero]

\* a row of the record as pd.DataFrame(index=range(n_iter), ...) creates it
EmptyRow ==
    [contact_rate |-> NaN, recovery |-> NaN, acceptance_quantity |-> NaN,
     changed_position |-> NaN]

\* the call sample_with_metropolis(sir_model, n_iter, initial_parameters,
\* jumping_sds), up to the creation of the record and current_parameters
McmcInit ==
    /\ n_iter \in 0..MaxIter
    /\ initial_parameters \in InitialSets
    /\ current_parameters = initial_parameters
    /\ current_acceptance_quantity = NaN
    /\ proposed_parameters = current_parameters
    /\ proposed_acceptance_quantity = NaN
    /\ accept_proba = NaN
    /\ accept = -1
    /\ i_run = 0
    /\ mcmc_record = [i \in 0..(n_iter - 1) |-> EmptyRow]
    /\ model_outputs = <<>>
    /\ model_runs = 0
    /\ mcmc_pc = "initialise"

\* the sampler is not part of the run
McmcIdle ==
    /\ n_iter = 0
    /\ initial_parameters = [contact_rate |-> Zero, recovery |-> Zero]
    /\ current_parameters = initial_parameters
    /\ current_acceptance_quantity = NaN
    /\ proposed_parameters = current_parameters
    /\ proposed_acceptance_quantity = NaN
    /\ accept_proba = NaN
    /\ accept = -1
    /\ i_run = 0
    /\ mcmc_record = <<>>
    /\ model_outputs = <<>>
    /\ model_runs = 0
    /\ mcmc_pc = "idle"

\* model.run(parameter_set) inside evaluate_log_likelihood, for the initial
\* parameters before the loop and for the proposal inside it
McmcRun ==
    /\ mcmc_pc \in {"initialise", "proposed"}
    /\ model_outputs' =
           ModelRun(IF mcmc_pc = "initialise" THEN current_parameters
                    ELSE proposed_parameters)
    /\ model_runs' = model_runs + 1
    /\ mcmc_pc' = IF mcmc_pc = "initialise" THEN "initial_run" ELSE "run"
    /\ UNCHANGED <<n_iter, initial_parameters, i_run, current_parameters,
                   current_acceptance_quantity,
                   proposed_parameters, proposed_acceptance_quantity,
                   accept_proba, accept, mcmc_record>>
    /\ UNCHANGED not_mcmc_vars

\* current_acceptance_quantity = evaluate_acceptance_quantity(model,
\* current_parameters), once the run has been made and its outputs read
McmcInitialise ==
    /\ mcmc_pc = "initial_run"
    /\ current_acceptance_quantity' =
           EvaluateAcceptanceQuantity(model_outputs, current_parameters)
    /\ mcmc_pc' = "loop"
    /\ UNCHANGED <<n_iter, initial_parameters, i_run, current_parameters,
                   proposed_parameters,
                   proposed_acceptance_quantity, accept_proba, accept,
                   mcmc_record, model_outputs, model_runs>>
    /\ UNCHANGED not_mcmc_vars

\* the loop makes one iteration more than range(n_iter) holds
MutInRange(i, n) == i <= n

\* for i_run in range(n_iter): whether an iteration is still to be made
InRange(i, n) == i < n

\* proposed_parameters = propose_parameter_set(current_parameters, jumping_sds)
McmcPropose ==
    /\ mcmc_pc = "loop"
    /\ InRange(i_run, n_iter)
    /\ proposed_parameters' \in ProposalSets
    /\ mcmc_pc' = "proposed"
    /\ UNCHANGED <<n_iter, initial_parameters, i_run, current_parameters,
                   current_acceptance_quantity,
                   proposed_acceptance_quantity, accept_proba, accept,
                   mcmc_record, model_outputs, model_runs>>
    /\ UNCHANGED not_mcmc_vars

\* proposed_acceptance_quantity = evaluate_acceptance_quantity(model,
\* proposed_parameters), once the run has been made and its outputs read
McmcEvaluate ==
    /\ mcmc_pc = "run"
    /\ proposed_acceptance_quantity' =
           EvaluateAcceptanceQuantity(model_outputs, proposed_parameters)
    /\ mcmc_pc' = "evaluated"
    /\ UNCHANGED <<n_iter, initial_parameters, i_run, current_parameters,
                   current_acceptance_quantity,
                   proposed_parameters, accept_proba, accept, mcmc_record,
                   model_outputs, model_runs>>
    /\ UNCHANGED not_mcmc_vars

\* a proposal is accepted automatically only when its quantity has gone up
MutMetropolisAccepts(proposed_quantity, current_quantity) ==
    ~InfGe(current_quantity, proposed_quantity)

\* accept automatically if the acceptance quantity has not gone down
MetropolisAccepts(proposed_quantity, current_quantity) ==
    InfGe(proposed_quantity, current_quantity)

\* the if and else that set accept
McmcDecide ==
    /\ mcmc_pc = "evaluated"
    /\ IF MetropolisAccepts(proposed_acceptance_quantity, current_acceptance_quantity)
       THEN /\ accept' = 1
            /\ UNCHANGED accept_proba
       ELSE /\ accept_proba' = AcceptProba(proposed_acceptance_quantity,
                                           current_acceptance_quantity)
            /\ accept' \in BinomRvs(accept_proba')
    /\ mcmc_pc' = "decided"
    /\ UNCHANGED <<n_iter, initial_parameters, i_run, current_parameters,
                   current_acceptance_quantity,
                   proposed_parameters, proposed_acceptance_quantity,
                   mcmc_record, model_outputs, model_runs>>
    /\ UNCHANGED not_mcmc_vars

\* the parameter set moves to every proposal, accepted or not
MutAcceptedParameters(accepted, proposed, current) == proposed

\* current_parameters after the update of the sampler
AcceptedParameters(accepted, proposed, current) ==
    IF accepted = 1 THEN proposed ELSE current

\* the update of the sampler on acceptance, and the row of the iteration
McmcRecord ==
    /\ mcmc_pc = "decided"
    /\ current_parameters' =
           AcceptedParameters(accept, proposed_parameters, current_parameters)
    /\ current_acceptance_quantity' =
           IF accept = 1 THEN proposed_acceptance_quantity
           ELSE current_acceptance_quantity
    /\ mcmc_record' =
           [mcmc_record EXCEPT ![i_run] =
               RecordRow(current_parameters', current_acceptance_quantity', accept)]
    /\ i_run' = i_run + 1
    /\ mcmc_pc' = "loop"
    /\ UNCHANGED <<n_iter, initial_parameters, proposed_parameters,
                   proposed_acceptance_quantity,
                   accept_proba, accept, model_outputs, model_runs>>
    /\ UNCHANGED not_mcmc_vars

\* return mcmc_record
McmcReturn ==
    /\ mcmc_pc = "loop"
    /\ ~InRange(i_run, n_iter)
    /\ mcmc_pc' = "returned"
    /\ UNCHANGED <<n_iter, initial_parameters, i_run, current_parameters,
                   current_acceptance_quantity,
                   proposed_parameters, proposed_acceptance_quantity,
                   accept_proba, accept, mcmc_record, model_outputs, model_runs>>
    /\ UNCHANGED not_mcmc_vars

-----------------------------------------------------------------------------
(* Compartmental models built flow by flow and run with Euler steps *)

\* Longest end_time explored
MaxEpiEnd == 3

\* Parameter(name): a value looked up in the parameters when the model runs
Parameter(name) == [parameter |-> name]

\* a value fixed when the model is built
Fixed(x) == [value |-> x]

\* 1.0 / Parameter(name)
Reciprocal(name) == [reciprocal |-> name]

\* 1.0 - Parameter(name)
Complement(name) == [complement |-> name]

\* the value of a model quantity under the parameters of a run
Evaluate(x, params) ==
    IF "parameter" \in DOMAIN x THEN params[x.parameter]
    ELSE IF "reciprocal" \in DOMAIN x THEN DecDiv(One, params[x.reciprocal])
    ELSE IF "complement" \in DOMAIN x THEN DecSub(One, params[x.complement])
    ELSE x.value

\* the members of a sequence
Range(s) == {s[i] : i \in DOMAIN s}

\* the place of a flow that has no source, or no destination
NoCompartment == ""

\* CompartmentalModel(times, compartments, infectious_compartments): no
\* population, no flows, one mixing category
CompartmentalModel(model_times, compartments, infectious_compartments) ==
    [times |-> model_times,
     compartments |-> compartments,
     infectious_compartments |-> infectious_compartments,
     initial_population |->
         [c \in Range(compartments) |-> [size |-> Zero, split |-> Fixed(One)]],
     flows |-> <<>>,
     mixing_matrix |-> << <<Fixed(One)>> >>,
     mixing_category |-> [c \in Range(compartments) |-> 1],
     infectiousness |-> [c \in Range(compartments) |-> Fixed(One)],
     prevalence |-> {}]

\* model.set_initial_population(distribution)
SetInitialPopulation(model, distribution) ==
    [model EXCEPT !.initial_population =
        [c \in DOMAIN @ |->
            IF c \in DOMAIN distribution
            THEN [size |-> distribution[c], split |-> Fixed(One)]
            ELSE @[c]]]

\* a flow of the model: its kind, name, rate, ends and adjustment
Flow(type, name, rate, source, dest) ==
    [type |-> type, name |-> name, rate |-> rate, source |-> source,
     dest |-> dest, adjustment |-> Fixed(One)]

\* model.add_transition_flow(name, fractional_rate, source, dest)
AddTransitionFlow(model, name, fractional_rate, source, dest) ==
    [model EXCEPT !.flows =
        Append(@, Flow("transition", name, fractional_rate, source, dest))]

\* model.add_infection_frequency_flow(name, contact_rate, source, dest)
AddInfectionFrequencyFlow(model, name, contact_rate, source, dest) ==
    [model EXCEPT !.flows =
        Append(@, Flow("infection_frequency", name, contact_rate, source, dest))]

\* AddInfectionDensityFlow adding a frequency-dependent flow
MutAddInfectionDensityFlow(model, name, contact_rate, source, dest) ==
    [model EXCEPT !.flows =
        Append(@, Flow("infection_frequency", name, contact_rate, source, dest))]

\* model.add_infection_density_flow(name, contact_rate, source, dest)
AddInfectionDensityFlow(model, name, contact_rate, source, dest) ==
    [model EXCEPT !.flows =
        Append(@, Flow("infection_density", name, contact_rate, source, dest))]

\* AddUniversalDeathFlows sending the deaths on to the first compartment
MutAddUniversalDeathFlows(model, base_name, death_rate) ==
    [model EXCEPT !.flows =
        @ \o [i \in 1..Len(model.compartments) |->
                 Flow("death", base_name \o "_for_" \o model.compartments[i],
                      death_rate, model.compartments[i], model.compartments[1])]]

\* model.add_universal_death_flows(base_name, death_rate): a death flow out
\* of every compartment, with no destination
AddUniversalDeathFlows(model, base_name, death_rate) ==
    [model EXCEPT !.flows =
        @ \o [i \in 1..Len(model.compartments) |->
                 Flow("death", base_name \o "_for_" \o model.compartments[i],
                      death_rate, model.compartments[i], NoCompartment)]]

\* model.add_replacement_birth_flow(name, dest): a flow with no source
AddReplacementBirthFlow(model, name, dest) ==
    [model EXCEPT !.flows =
        Append(@, Flow("replacement_birth", name, Fixed(Zero), NoCompartment, dest))]

\* model.request_output_for_compartments("prevalence", compartments)
RequestOutputForCompartments(model, compartments) ==
    [model EXCEPT !.prevalence = compartments]

\* no adjustment in a stratum (None)
Unadjusted == Fixed(One)

\* Stratification(name, strata, compartments), before anything is set on it
Stratification(name, strata, compartments) ==
    [name |-> name,
     strata |-> strata,
     compartments |-> compartments,
     population_split |-> [k \in DOMAIN strata |-> Unadjusted],
     mixing_matrix |-> <<>>,
     flow_adjustments |-> <<>>,
     infectiousness_adjustments |-> <<>>]

\* strat.set_population_split(proportions)
SetPopulationSplit(strat, proportions) ==
    [strat EXCEPT !.population_split = proportions]

\* strat.set_mixing_matrix(mixing_matrix)
SetMixingMatrix(strat, mixing_matrix) ==
    [strat EXCEPT !.mixing_matrix = mixing_matrix]

\* strat.set_flow_adjustments(flow_name, adjustments)
SetFlowAdjustments(strat, flow_name, adjustments) ==
    [strat EXCEPT !.flow_adjustments =
        [f \in DOMAIN @ \cup {flow_name} |->
            IF f = flow_name THEN adjustments ELSE @[f]]]

\* strat.add_infectiousness_adjustments(compartment, adjustments)
AddInfectiousnessAdjustments(strat, compartment, adjustments) ==
    [strat EXCEPT !.infectiousness_adjustments =
        [c \in DOMAIN @ \cup {compartment} |->
            IF c = compartment THEN adjustments ELSE @[c]]]

\* the name of a compartment within a stratum
StratumName(compartment, strat, k) ==
    compartment \o "X" \o strat.name \o "_" \o strat.strata[k]

\* the names a compartment goes by once the model is stratified
StrataOf(compartment, strat) ==
    IF compartment \in Range(strat.compartments)
    THEN [k \in DOMAIN strat.strata |-> StratumName(compartment, strat, k)]
    ELSE <<compartment>>

RECURSIVE StratifiedFrom(_, _, _)
\* the compartments of the stratified model, from the i-th one on
StratifiedFrom(compartments, strat, i) ==
    IF i > Len(compartments) THEN <<>>
    ELSE StrataOf(compartments[i], strat)
             \o StratifiedFrom(compartments, strat, i + 1)

\* the compartment a stratified compartment was made from
BaseOf(model, strat, c) ==
    CHOOSE b \in Range(model.compartments) : c \in Range(StrataOf(b, strat))

\* the stratum of a stratified compartment, 0 if it was left whole
StratumOf(model, strat, c) ==
    IF c \in Range(model.compartments) THEN 0
    ELSE CHOOSE k \in DOMAIN strat.strata :
             c = StratumName(BaseOf(model, strat, c), strat, k)

\* an end of a flow within stratum k
EndInStratum(compartment, strat, k) ==
    IF compartment \in Range(strat.compartments)
    THEN StratumName(compartment, strat, k)
    ELSE compartment

\* a flow within stratum k, with the adjustment set for that stratum
FlowInStratum(flow, strat, k) ==
    [flow EXCEPT !.source = EndInStratum(@, strat, k),
                 !.dest = EndInStratum(@, strat, k),
                 !.adjustment =
                     IF flow.name \in DOMAIN strat.flow_adjustments
                     THEN strat.flow_adjustments[flow.name][k]
                     ELSE @]

RECURSIVE StratifiedFlowsFrom(_, _, _)
\* the flows of the stratified model, from the i-th flow on: a flow with a
\* stratified end is repeated in every stratum
StratifiedFlowsFrom(flows, strat, i) ==
    IF i > Len(flows) THEN <<>>
    ELSE (IF {flows[i].source, flows[i].dest} \cap Range(strat.compartments) # {}
          THEN [k \in DOMAIN strat.strata |-> FlowInStratum(flows[i], strat, k)]
          ELSE <<flows[i]>>)
             \o StratifiedFlowsFrom(flows, strat, i + 1)

\* the infectiousness of a compartment of the stratified model
InfectiousnessIn(model, strat, c) ==
    IF /\ StratumOf(model, strat, c) > 0
       /\ BaseOf(model, strat, c) \in DOMAIN strat.infectiousness_adjustments
    THEN strat.infectiousness_adjustments[BaseOf(model, strat, c)]
                                         [StratumOf(model, strat, c)]
    ELSE model.infectiousness[BaseOf(model, strat, c)]

\* model.stratify_with(strat)
StratifyWith(model, strat) ==
    [times |-> model.times,
     compartments |-> StratifiedFrom(model.compartments, strat, 1),
     infectious_compartments |->
         {c \in Range(StratifiedFrom(model.compartments, strat, 1)) :
             BaseOf(model, strat, c) \in model.infectious_compartments},
     initial_population |->
         [c \in Range(StratifiedFrom(model.compartments, strat, 1)) |->
             IF StratumOf(model, strat, c) = 0 THEN model.initial_population[c]
             ELSE [size |-> model.initial_population[BaseOf(model, strat, c)].size,
                   split |-> strat.population_split[StratumOf(model, strat, c)]]],
     flows |-> StratifiedFlowsFrom(model.flows, strat, 1),
     mixing_matrix |->
         IF strat.mixing_matrix = <<>> THEN model.mixing_matrix
         ELSE strat.mixing_matrix,
     mixing_category |->
         [c \in Range(StratifiedFrom(model.compartments, strat, 1)) |->
             IF strat.mixing_matrix = <<>> \/ StratumOf(model, strat, c) = 0
             THEN 1
             ELSE StratumOf(model, strat, c)],
     infectiousness |->
         [c \in Range(StratifiedFrom(model.compartments, strat, 1)) |->
             InfectiousnessIn(model, strat, c)],
     prevalence |->
         {c \in Range(StratifiedFrom(model.compartments, strat, 1)) :
             BaseOf(model, strat, c) \in model.prevalence}]

\* the sizes a run starts from
InitialSizes(model, params) ==
    [c \in Range(model.compartments) |->
        DecMul(model.initial_population[c].size,
               Evaluate(model.initial_population[c].split, params))]

RECURSIVE DecSum(_, _)
\* the sum of a sequence of numbers, from the i-th one on
DecSum(xs, i) ==
    IF i > Len(xs) THEN Zero ELSE DecAdd(xs[i], DecSum(xs, i + 1))

\* the infectious population of mixing category j, each compartment counted
\* with its infectiousness
InfectiousIn(model, params, sizes, j) ==
    DecSum([i \in DOMAIN model.compartments |->
               IF /\ model.compartments[i] \in model.infectious_compartments
                  /\ model.mixing_category[model.compartments[i]] = j
               THEN DecMul(Evaluate(model.infectiousness[model.compartments[i]],
                                    params),
                           sizes[model.compartments[i]])
               ELSE Zero], 1)

\* the population of mixing category j
PopulationIn(model, sizes, j) ==
    DecSum([i \in DOMAIN model.compartments |->
               IF model.mixing_category[model.compartments[i]] = j
               THEN sizes[model.compartments[i]]
               ELSE Zero], 1)

\* DensityForce reading the matrix by columns
MutDensityForce(model, params, sizes, i) ==
    DecSum([j \in DOMAIN model.mixing_matrix |->
               DecMul(Evaluate(model.mixing_matrix[j][i], params),
                      InfectiousIn(model, params, sizes, j))], 1)

\* density-dependent force of infection on category i: the row of the mixing
\* matrix for i times the infectious populations of the categories
DensityForce(model, params, sizes, i) ==
    DecSum([j \in DOMAIN model.mixing_matrix |->
               DecMul(Evaluate(model.mixing_matrix[i][j], params),
                      InfectiousIn(model, params, sizes, j))], 1)

\* frequency-dependent force of infection on category i: as for density, each
\* category's infectious population taken as a proportion of the category
FrequencyForce(model, params, sizes, i) ==
    DecSum([j \in DOMAIN model.mixing_matrix |->
               DecMul(Evaluate(model.mixing_matrix[i][j], params),
                      DecDiv(InfectiousIn(model, params, sizes, j),
                             PopulationIn(model, sizes, j)))], 1)

\* the rate of the death flows of the model together
TotalDeaths(model, params, sizes) ==
    DecSum([i \in DOMAIN model.flows |->
               IF model.flows[i].type = "death"
               THEN DecMul(Evaluate(model.flows[i].rate, params),
                           sizes[model.flows[i].source])
               ELSE Zero], 1)

\* the rate of a flow before its adjustment
UnadjustedRate(model, params, sizes, flow) ==
    CASE flow.type = "transition" ->
             DecMul(Evaluate(flow.rate, params), sizes[flow.source])
      [] flow.type = "death" ->
             DecMul(Evaluate(flow.rate, params), sizes[flow.source])
      [] flow.type = "infection_density" ->
             DecMul(DecMul(Evaluate(flow.rate, params),
                           DensityForce(model, params, sizes,
                                        model.mixing_category[flow.source])),
                    sizes[flow.source])
      [] flow.type = "infection_frequency" ->
             DecMul(DecMul(Evaluate(flow.rate, params),
                           FrequencyForce(model, params, sizes,
                                          model.mixing_category[flow.source])),
                    sizes[flow.source])
      [] flow.type = "replacement_birth" ->
             TotalDeaths(model, params, sizes)

\* the rate of a flow: people per unit time
ModelFlowRate(model, params, sizes, flow) ==
    DecMul(Evaluate(flow.adjustment, params),
           UnadjustedRate(model, params, sizes, flow))

\* a flow's rate taken from its source, if it has one, and added to its
\* destination, if it has one
ApplyRate(net, flow, rate) ==
    [c \in DOMAIN net |->
        IF c = flow.source /\ c # flow.dest THEN DecSub(net[c], rate)
        ELSE IF c = flow.dest /\ c # flow.source THEN DecAdd(net[c], rate)
        ELSE net[c]]

RECURSIVE ModelNetFrom(_, _, _, _, _)
\* the net flow into every compartment, all flows evaluated on sizes
ModelNetFrom(model, params, sizes, i, net) ==
    IF i > Len(model.flows) THEN net
    ELSE ModelNetFrom(model, params, sizes, i + 1,
             ApplyRate(net, model.flows[i],
                       ModelFlowRate(model, params, sizes, model.flows[i])))

\* compartment_sizes + net flows * time_step
StepBy(sizes, net) ==
    [c \in DOMAIN sizes |-> DecAdd(sizes[c], DecMul(net[c], FlowTimeStep))]

\* the sizes one time step after sizes
ModelStep(model, params, sizes) ==
    StepBy(sizes, ModelNetFrom(model, params, sizes, 1,
                               [c \in DOMAIN sizes |-> Zero]))

RECURSIVE SolveFrom(_, _, _)
\* the rows of a run from the last one of rows up to the end time
SolveFrom(model, params, rows) ==
    IF Len(rows) > RunSteps(model) THEN rows
    ELSE SolveFrom(model, params,
                   Append(rows, ModelStep(model, params, rows[Len(rows)])))

\* model.run(parameters); model.get_outputs_df(): the compartment sizes at
\* every time from the start to the end, the first row being time 0
RunModel(model, params) ==
    SolveFrom(model, params, <<InitialSizes(model, params)>>)

\* model.get_derived_outputs_df()["prevalence"] of a run
Prevalence(model, values) ==
    [k \in DOMAIN values |->
        DecSum([i \in DOMAIN model.compartments |->
                   IF model.compartments[i] \in model.prevalence
                   THEN values[k][model.compartments[i]]
                   ELSE Zero], 1)]

-----------------------------------------------------------------------------
(* The notebooks on transmission, demography, immunity and mixing matrices *)

\* f with v stored under the name k
Put(f, k, v) == [x \in DOMAIN f \cup {k} |-> IF x = k THEN v ELSE f[x]]

\* assert pop >= 0., msg
PopulationAccepted(cfg) == DecLe(Zero, cfg.population)

\* msg = "Seed larger than population"
SeedMessage == "Seed larger than population"

\* get_sir_base_structure(config), once its assertion has passed
GetSirBaseStructure(cfg) ==
    AddTransitionFlow(
        SetInitialPopulation(
            CompartmentalModel(<<Zero, cfg.end_time>>,
                               <<"susceptible", "infectious", "recovered">>,
                               {"infectious"}),
            [c \in {"susceptible", "infectious"} |->
                IF c = "susceptible" THEN DecSub(cfg.population, cfg.seed)
                ELSE cfg.seed]),
        "recovery", Parameter("recovery"), "infectious", "recovered")

\* sir_freq_deaths_model, as built before it is run
SirFreqDeaths(cfg) ==
    AddUniversalDeathFlows(
        AddInfectionFrequencyFlow(GetSirBaseStructure(cfg), "infection",
            Parameter("contact_rate"), "susceptible", "infectious"),
        "non_infection_deaths", Parameter("crude_death_rate"))

\* sir_dens_deaths_model, as built before it is run
SirDensDeaths(cfg) ==
    AddUniversalDeathFlows(
        AddInfectionDensityFlow(GetSirBaseStructure(cfg), "infection",
            Parameter("contact_rate"), "susceptible", "infectious"),
        "non_infection_deaths", Parameter("crude_death_rate"))

\* build_sir_model(config) of the demography notebook
BuildSirModel(cfg) ==
    AddTransitionFlow(
        AddInfectionFrequencyFlow(
            SetInitialPopulation(
                CompartmentalModel(<<Zero, cfg.end_time>>,
                                   <<"susceptible", "infectious", "recovered">>,
                                   {"infectious"}),
                [c \in {"susceptible", "infectious"} |->
                    IF c = "susceptible" THEN DecSub(cfg.population, cfg.seed)
                    ELSE cfg.seed]),
            "infection", Parameter("contact_rate"), "susceptible", "infectious"),
        "recovery", Parameter("recovery_rate"), "infectious", "recovered")

\* SirDemog without the births
MutSirDemog(cfg) ==
    AddUniversalDeathFlows(BuildSirModel(cfg), "universal_death",
                           Parameter("replenishment"))

\* sir_demog_model: deaths from every compartment, replaced by births
SirDemog(cfg) ==
    AddReplacementBirthFlow(
        AddUniversalDeathFlows(BuildSirModel(cfg), "universal_death",
                               Parameter("replenishment")),
        "births", "susceptible")

\* get_si_base_structure(config, extra_comps)
GetSiBaseStructure(cfg, extra_comps) ==
    AddInfectionFrequencyFlow(
        SetInitialPopulation(
            CompartmentalModel(<<Zero, cfg.end_time>>,
                               <<"susceptible", "infectious">> \o extra_comps,
                               {"infectious"}),
            [c \in {"susceptible", "infectious"} |->
                IF c = "susceptible" THEN DecSub(cfg.population, cfg.seed)
                ELSE cfg.seed]),
        "infection", Parameter("contact_rate"), "susceptible", "infectious")

\* sirs_model, as built before it is run
Sirs(cfg) ==
    AddTransitionFlow(
        AddTransitionFlow(GetSiBaseStructure(cfg, <<"recovered">>),
            "recovery", Parameter("recovery_rate"), "infectious", "recovered"),
        "immunity_waning", Parameter("immunity_waning"), "recovered",
        "susceptible")

\* Sirs2 with nobody infected out of susceptible_2
MutSirs2(cfg) ==
    AddTransitionFlow(
        AddTransitionFlow(
            GetSiBaseStructure(cfg, <<"recovered", "susceptible_2">>),
            "recovery", Parameter("recovery_rate"), "infectious", "recovered"),
        "immunity_waning", Parameter("immunity_waning"), "recovered",
        "susceptible_2")

\* sirs2_model, as built before it is run
Sirs2(cfg) ==
    AddTransitionFlow(
        AddTransitionFlow(
            AddInfectionFrequencyFlow(
                GetSiBaseStructure(cfg, <<"recovered", "susceptible_2">>),
                "reinfection", Parameter("contact_rate"), "susceptible_2",
                "infectious"),
            "recovery", Parameter("recovery_rate"), "infectious", "recovered"),
        "immunity_waning", Parameter("immunity_waning"), "recovered",
        "susceptible_2")

\* build_sir_model(config) of the mixing-matrix notebook
BuildSirModelForStrat(cfg) ==
    RequestOutputForCompartments(
        AddTransitionFlow(
            AddInfectionDensityFlow(
                SetInitialPopulation(
                    CompartmentalModel(<<Zero, cfg.end_time>>, cfg.compartments,
                                       {"infectious"}),
                    [c \in {"susceptible", "infectious"} |->
                        IF c = "susceptible"
                        THEN DecSub(cfg.population, cfg.seed)
                        ELSE cfg.seed]),
                "infection", Parameter("risk_per_contact"), "susceptible",
                "infectious"),
            "recovery", Reciprocal("infectious_period"), "infectious",
            "recovered"),
        {"infectious"})

\* build_simple_strat(compartments, mixing_matrix), <<>> standing for None
BuildSimpleStrat(compartments, mixing_matrix) ==
    IF mixing_matrix = <<>>
    THEN SetPopulationSplit(
             Stratification("groups", <<"group1", "group2">>, compartments),
             <<Parameter("prop1"), Complement("prop1")>>)
    ELSE SetMixingMatrix(
             SetPopulationSplit(
                 Stratification("groups", <<"group1", "group2">>, compartments),
                 <<Parameter("prop1"), Complement("prop1")>>),
             mixing_matrix)

\* the mixing matrix of ones
OnesMatrix ==
    << <<Fixed(One), Fixed(One)>>,
       <<Fixed(One), Fixed(One)>> >>

\* build_suscept_adjusted_matrix(scaler): the row of group1 scaled
BuildSusceptAdjustedMatrix(scaler) ==
    << <<scaler, scaler>>,
       <<Fixed(One), Fixed(One)>> >>

\* BuildInfectiousAdjustedMatrix scaling the row of group1
MutBuildInfectiousAdjustedMatrix(scaler) ==
    << <<scaler, scaler>>,
       <<Fixed(One), Fixed(One)>> >>

\* build_infectious_adjusted_matrix(scaler): the column of group1 scaled
BuildInfectiousAdjustedMatrix(scaler) ==
    << <<scaler, Fixed(One)>>,
       <<scaler, Fixed(One)>> >>

\* suscept_model: the infection flow of group1 adjusted, no mixing matrix
SusceptModel(cfg) ==
    StratifyWith(BuildSirModelForStrat(cfg),
        SetFlowAdjustments(BuildSimpleStrat(cfg.compartments, <<>>),
            "infection", <<Parameter("transmission_scaler"), Unadjusted>>))

\* suscept_matrix_model: the adjusted mixing matrix alone
SusceptMatrixModel(cfg) ==
    StratifyWith(BuildSirModelForStrat(cfg),
        BuildSimpleStrat(cfg.compartments,
            BuildSusceptAdjustedMatrix(Parameter("transmission_scaler"))))

\* suscept_matrix_adjust_model: the matrix of ones and the flow adjustment
SusceptMatrixAdjustModel(cfg) ==
    StratifyWith(BuildSirModelForStrat(cfg),
        SetFlowAdjustments(BuildSimpleStrat(cfg.compartments, OnesMatrix),
            "infection", <<Parameter("transmission_scaler"), Unadjusted>>))

\* infectious_model: the infectiousness of group1 adjusted, no mixing matrix
InfectiousModel(cfg) ==
    StratifyWith(BuildSirModelForStrat(cfg),
        AddInfectiousnessAdjustments(BuildSimpleStrat(cfg.compartments, <<>>),
            "infectious", <<Parameter("transmission_scaler"), Unadjusted>>))

\* infectious_matrix_model: the adjusted mixing matrix alone
InfectiousMatrixModel(cfg) ==
    StratifyWith(BuildSirModelForStrat(cfg),
        BuildSimpleStrat(cfg.compartments,
            BuildInfectiousAdjustedMatrix(Parameter("transmission_scaler"))))

\* infectious_matrix_adjust_model: the matrix of ones and the adjustment
InfectiousMatrixAdjustModel(cfg) ==
    StratifyWith(BuildSirModelForStrat(cfg),
        AddInfectiousnessAdjustments(
            BuildSimpleStrat(cfg.compartments, OnesMatrix),
            "infectious", <<Parameter("transmission_scaler"), Unadjusted>>))

DecMin(a, b) == IF DecLe(a, b) THEN a ELSE b

DecMax(a, b) == IF DecLe(a, b) THEN b ELSE a

\* differences = outputs.min(axis=1) - outputs.max(axis=1), outputs holding
\* the prevalence of three runs
Differences(first, second, third) ==
    [k \in DOMAIN first |->
        DecSub(DecMin(first[k], DecMin(second[k], third[k])),
               DecMax(first[k], DecMax(second[k], third[k])))]

\* the largest difference the notebook lets pass
DiscrepancyBound == Dec(1, 8)

\* all(abs(differences) < 1e-8)
NoDiscrepancy(differences) ==
    \A k \in DOMAIN differences :
        DecLt(DecAbs(differences[k]), DiscrepancyBound)

\* "There's a discrepancy"
DiscrepancyMessage == "There's a discrepancy"

EpiEndTimes == {Dec(n, 0) : n \in 1..MaxEpiEnd}

\* model_config and parameters of the transmission notebook when its models
\* with deaths are built
TransmissionInputs ==
    [config : [population : {Dec(1, 0), Dec(1000, 0), Dec(-1, 0)},
               seed : {Dec(1, 2), Dec(10, 0)},
               end_time : EpiEndTimes],
     parameters : [recovery : {Dec(333, 3)},
                   contact_rate : {Dec(1, 0), Dec(1, 3)},
                   crude_death_rate : {Dec(5, 2), Dec(5, 1)}]]

\* model_config and parameters of the demography notebook
DemographyInputs ==
    [config : [population : {Dec(100000, 0), Dec(1000, 0)},
               seed : {Dec(1, 0)},
               end_time : EpiEndTimes],
     parameters : [recovery_rate : {Dec(333, 3)},
                   contact_rate : {Dec(1, 0)},
                   replenishment : {Dec(5, 3), Dec(1, 1)}]]

\* model_config and parameters of the immunity notebook
ImmunityInputs ==
    [config : [population : {Dec(1, 0), Dec(1000, 0)},
               seed : {Dec(1, 3)},
               end_time : EpiEndTimes],
     parameters : [contact_rate : {Dec(1, 0), Dec(2, 0)},
                   recovery_rate : {Dec(333, 3)},
                   death_rate : {Dec(5, 2)},
                   immunity_waning : {Dec(1, 1), Dec(5, 1)}]]

\* model_config and parameters of the mixing-matrix notebook, prop1 being
\* drawn from (0, 1)
MatricesInputs ==
    [config : [population : {Dec(1, 0)},
               seed : {Dec(1, 2)},
               end_time : EpiEndTimes,
               compartments : {<<"susceptible", "infectious", "recovered">>}],
     parameters : [risk_per_contact : {Dec(5, 1)},
                   infectious_period : {Dec(4, 0)},
                   prop1 : {Dec(25, 2), Dec(5, 1), Dec(9, 1)},
                   transmission_scaler : {Dec(2, 0), Dec(5, 1)}]]

\* BuildAssortativeMixingMatrix with the groups mixing as within themselves
MutBuildAssortativeMixingMatrix(intergroup_contact_rate) ==
    << <<Fixed(One), Fixed(One)>>,
       <<Fixed(One), Fixed(One)>> >>

\* build_assortative_mixing_matrix(intergroup_contact_rate): one on the
\* diagonal, the rate between the groups off it
BuildAssortativeMixingMatrix(intergroup_contact_rate) ==
    << <<Fixed(One), intergroup_contact_rate>>,
       <<intergroup_contact_rate, Fixed(One)>> >>

\* build_simple_strat(compartments) of this notebook: the matrix is a
\* function of the parameter intergroup_interaction
BuildAssortativeStrat(compartments) ==
    SetMixingMatrix(
        SetPopulationSplit(
            Stratification("groups", <<"group1", "group2">>, compartments),
            <<Parameter("prop1"), Complement("prop1")>>),
        BuildAssortativeMixingMatrix(Parameter("intergroup_interaction")))

\* unstratified_model: build_sir_model(model_config), which is written as in
\* the mixing-matrix notebook, with the prevalence of infectious requested
UnstratifiedModel(cfg) == BuildSirModelForStrat(cfg)

\* simple_strat_model, as built before it is run
SimpleStratModel(cfg) ==
    StratifyWith(BuildSirModelForStrat(cfg),
                 BuildAssortativeStrat(cfg.compartments))

\* hetero_mix_model, built as simple_strat_model is
HeteroMixModel(cfg) ==
    StratifyWith(BuildSirModelForStrat(cfg),
                 BuildAssortativeStrat(cfg.compartments))

\* 4.0 / 3.0, a quotient that does not terminate and is kept to Prec limbs
FourThirds == DecQuot(Dec(4, 0), Dec(3, 0), Prec)

\* the between-group mixing the notebook goes on to
ReducedInteraction == Dec(5, 1)

\* model_config and parameters of the notebook on assortative mixing
AssortativeInputs ==
    [config : [population : {Dec(1, 0)},
               seed : {Dec(1, 2), Dec(1, 1)},
               end_time : EpiEndTimes,
               compartments : {<<"susceptible", "infectious", "recovered">>}],
     parameters : [risk_per_contact : {Dec(5, 1), Dec(3, 1)},
                   infectious_period : {Dec(4, 0)},
                   prop1 : {Dec(5, 1), Dec(25, 2)},
                   intergroup_interaction : {Dec(1, 0)}]]

\* sir_dens_model, as built before it is run
SirDens(cfg) ==
    AddInfectionDensityFlow(GetSirBaseStructure(cfg), "infection",
        Parameter("contact_rate"), "susceptible", "infectious")

\* large_pop_dens_model, built as sir_dens_model is
LargePopDens(cfg) ==
    AddInfectionDensityFlow(GetSirBaseStructure(cfg), "infection",
        Parameter("contact_rate"), "susceptible", "infectious")

\* model_config.update({"population": 1000., "seed": 10.})
LargePopConfig(cfg) ==
    [cfg EXCEPT !.population = Dec(1000, 0), !.seed = Dec(10, 0)]

\* dens_parameters.update({"contact_rate": 0.001})
LargePopParameters(params) == [params EXCEPT !.contact_rate = Dec(1, 3)]

\* model_config and dens_parameters of the transmission notebook when its
\* density-dependent models are built
DensityInputs ==
    [config : [population : {Dec(1, 0)},
               seed : {Dec(1, 2), Dec(2, 2)},
               end_time : EpiEndTimes],
     parameters : [recovery : {Dec(333, 3), Dec(1, 1)},
                   contact_rate : {Dec(1, 0), Dec(5, 1)}]]

\* BuildSirModelR0 without the recovery flow
MutBuildSirModelR0(cfg) ==
    AddInfectionFrequencyFlow(
        SetInitialPopulation(
            CompartmentalModel(<<Zero, cfg.end_time>>,
                               <<"susceptible", "infectious", "recovered">>,
                               {"infectious"}),
            [c \in {"susceptible", "infectious"} |->
                IF c = "susceptible" THEN DecSub(cfg.population, cfg.seed)
                ELSE cfg.seed]),
        "infection", Parameter("contact_rate"), "susceptible", "infectious")

\* build_sir_model(config) of the notebook on the reproduction number; the end
\* time is read from model_config, which is the configuration it is given
BuildSirModelR0(cfg) ==
    AddTransitionFlow(
        AddInfectionFrequencyFlow(
            SetInitialPopulation(
                CompartmentalModel(<<Zero, cfg.end_time>>,
                                   <<"susceptible", "infectious", "recovered">>,
                                   {"infectious"}),
                [c \in {"susceptible", "infectious"} |->
                    IF c = "susceptible" THEN DecSub(cfg.population, cfg.seed)
                    ELSE cfg.seed]),
            "infection", Parameter("contact_rate"), "susceptible", "infectious"),
        "recovery", Parameter("recovery"), "infectious", "recovered")

\* f without what is stored under the name k
Drop(f, k) == [x \in DOMAIN f \ {k} |-> f[x]]

\* get_outputs_df()[compartment]: one compartment of a run, over time
Column(values, compartment) ==
    [k \in DOMAIN values |-> values[k][compartment]]

\* the outputs of a model that has not been run
NotRun == <<>>

RECURSIVE GetOutputFromR0sFrom(_, _, _, _, _, _, _, _)
\* the loop of get_output_from_r0s from the i-th reproduction number on.
\* model is the argument and is_sir_model tells whether it is the object that
\* the global sir_model names; params is the global parameters, sojourn the
\* global sojourn_infectious, sir_values what sir_model.get_outputs_df()
\* gives. Each turn sets the contact rate, runs the argument and stores a
\* column read from sir_model; reading a model that has not been run raises
GetOutputFromR0sFrom(model, is_sir_model, basic_reproduction_numbers, compartment, i, params, sir_values, collated) ==
    IF i > Len(basic_reproduction_numbers)
    THEN [parameters |-> params, sir_values |-> sir_values,
          outputs |-> collated, raised |-> FALSE]
    ELSE IF ~is_sir_model /\ sir_values = NotRun
    THEN [parameters |->
              Put(params, "contact_rate",
                  DecDiv(basic_reproduction_numbers[i],
                         epi_values["sojourn_infectious"])),
          sir_values |-> sir_values, outputs |-> collated, raised |-> TRUE]
    ELSE GetOutputFromR0sFrom(model, is_sir_model, basic_reproduction_numbers,
             compartment, i + 1,
             Put(params, "contact_rate",
                 DecDiv(basic_reproduction_numbers[i],
                        epi_values["sojourn_infectious"])),
             IF is_sir_model
             THEN RunModel(model,
                      Put(params, "contact_rate",
                          DecDiv(basic_reproduction_numbers[i],
                                 epi_values["sojourn_infectious"])))
             ELSE sir_values,
             Append(collated,
                 [r0 |-> basic_reproduction_numbers[i],
                  column |->
                      Column(IF is_sir_model
                             THEN RunModel(model,
                                      Put(params, "contact_rate",
                                          DecDiv(basic_reproduction_numbers[i],
                                                 epi_values["sojourn_infectious"])))
                             ELSE sir_values,
                             compartment)]))

\* get_output_from_r0s(model, basic_reproduction_numbers, compartment)
GetOutputFromR0s(model, is_sir_model, basic_reproduction_numbers, compartment) ==
    GetOutputFromR0sFrom(model, is_sir_model, basic_reproduction_numbers,
        compartment, 1, epi_parameters,
        IF "sir_model" \in DOMAIN epi_values THEN epi_values["sir_model"]
        ELSE NotRun,
        <<>>)

\* the reproduction numbers a call is made with
R0Lists == {<<Dec(2, 0), Dec(3, 0)>>, <<Dec(3, 0), Dec(2, 0)>>}

\* the reproduction number chosen for the time-varying one
R0Choices == {Dec(4, 0), Dec(2, 0), Dec(5, 1)}

\* model_config.update({"end_time": 20.0, "population": 10.0}), the end time
\* held to the longest one explored
RtConfig(cfg) ==
    [cfg EXCEPT !.end_time = Dec(MaxEpiEnd, 0), !.population = Dec(10, 0)]

\* outputs["reproduction_number"] = r0 * outputs["susceptible"] /
\* model_config["population"]; outputs["threshold"] = 1.0
WithReproductionNumber(values, r0, cfg) ==
    [k \in DOMAIN values |->
        Put(Put(values[k], "reproduction_number",
                DecDiv(DecMul(r0, values[k]["susceptible"]), cfg.population)),
            "threshold", One)]

\* model_config and parameters of the notebook on the reproduction number
ReproductionInputs ==
    [config : [population : {Dec(1000, 0)},
               seed : {Dec(10, 0), Dec(5, 0)},
               end_time : EpiEndTimes],
     parameters : [recovery : {Dec(333, 3)}]]

\* The configuration and parameters of one of the notebooks, nothing built
EpiInit ==
    /\ epi_notebook \in {"transmission", "demography", "immunity", "matrices",
                        "assortative", "density", "reproduction"}
    /\ \E inputs \in CASE epi_notebook = "transmission" -> TransmissionInputs
                       [] epi_notebook = "demography" -> DemographyInputs
                       [] epi_notebook = "immunity" -> ImmunityInputs
                       [] epi_notebook = "matrices" -> MatricesInputs
                       [] epi_notebook = "assortative" -> AssortativeInputs
                       [] epi_notebook = "density" -> DensityInputs
                       [] epi_notebook = "reproduction" -> ReproductionInputs :
           /\ epi_config = inputs.config
           /\ epi_parameters = inputs.parameters
    /\ epi_pc = "config"
    /\ epi_models = <<>>
    /\ epi_values = <<>>
    /\ epi_error = ""

\* these notebooks are not part of the run
EpiIdle ==
    /\ epi_notebook = "none"
    /\ epi_config = <<>>
    /\ epi_parameters = <<>>
    /\ epi_pc = "idle"
    /\ epi_models = <<>>
    /\ epi_values = <<>>
    /\ epi_error = ""

\* a cell that builds a model under a name, runs it and reads its outputs
BuildAndRun(from, to, name, model) ==
    /\ epi_pc = from
    /\ epi_models' = Put(epi_models, name, model)
    /\ epi_values' = Put(epi_values, name, RunModel(model, epi_parameters))
    /\ epi_pc' = to
    /\ UNCHANGED <<epi_notebook, epi_config, epi_parameters, epi_error>>
    /\ UNCHANGED not_epi_vars

\* a cell stopped by a failed assertion
Fail(from, message) ==
    /\ epi_pc = from
    /\ epi_error' = message
    /\ epi_pc' = "failed"
    /\ UNCHANGED <<epi_notebook, epi_config, epi_parameters, epi_models,
                   epi_values>>
    /\ UNCHANGED not_epi_vars

\* the cell of sir_freq_deaths_model: built by get_sir_base_structure, which
\* asserts on the population, then given its flows, run and read
SirFreqDeathsCell ==
    /\ epi_notebook = "transmission"
    /\ IF PopulationAccepted(epi_config)
       THEN BuildAndRun("config", "sir_freq_deaths", "sir_freq_deaths_model",
                        SirFreqDeaths(epi_config))
       ELSE Fail("config", SeedMessage)

\* the cell of sir_dens_deaths_model
SirDensDeathsCell ==
    /\ epi_notebook = "transmission"
    /\ IF PopulationAccepted(epi_config)
       THEN BuildAndRun("sir_freq_deaths", "sir_dens_deaths",
                        "sir_dens_deaths_model", SirDensDeaths(epi_config))
       ELSE Fail("sir_freq_deaths", SeedMessage)

\* the cell that builds sir_demog_model
SirDemogCell ==
    /\ epi_notebook = "demography"
    /\ epi_pc = "config"
    /\ epi_models' = Put(epi_models, "sir_demog_model", SirDemog(epi_config))
    /\ epi_pc' = "sir_demog"
    /\ UNCHANGED <<epi_notebook, epi_config, epi_parameters, epi_values,
                   epi_error>>
    /\ UNCHANGED not_epi_vars

\* sir_demog_model.run(parameters=parameters) and get_outputs_df()
SirDemogRun ==
    /\ epi_notebook = "demography"
    /\ epi_pc = "sir_demog"
    /\ epi_values' = Put(epi_values, "sir_demog_model",
                         RunModel(epi_models["sir_demog_model"], epi_parameters))
    /\ epi_pc' = "sir_demog_ran"
    /\ UNCHANGED <<epi_notebook, epi_config, epi_parameters, epi_models,
                   epi_error>>
    /\ UNCHANGED not_epi_vars

\* the cell of sirs_model
SirsCell ==
    /\ epi_notebook = "immunity"
    /\ BuildAndRun("config", "sirs", "sirs_model", Sirs(epi_config))

\* the cell of sirs2_model
Sirs2Cell ==
    /\ epi_notebook = "immunity"
    /\ BuildAndRun("sirs", "sirs2", "sirs2_model", Sirs2(epi_config))

\* base_model = build_sir_model(model_config); base_model.run(...)
BaseCell ==
    /\ epi_notebook = "matrices"
    /\ BuildAndRun("config", "base", "base_model",
                   BuildSirModelForStrat(epi_config))

SusceptCell ==
    /\ epi_notebook = "matrices"
    /\ BuildAndRun("base", "suscept", "suscept_model",
                   SusceptModel(epi_config))

SusceptMatrixCell ==
    /\ epi_notebook = "matrices"
    /\ BuildAndRun("suscept", "suscept_matrix", "suscept_matrix_model",
                   SusceptMatrixModel(epi_config))

SusceptMatrixAdjustCell ==
    /\ epi_notebook = "matrices"
    /\ BuildAndRun("suscept_matrix", "suscept_matrix_adjust",
                   "suscept_matrix_adjust_model",
                   SusceptMatrixAdjustModel(epi_config))

\* the prevalence of a model that has been run
PrevalenceOf(name) == Prevalence(epi_models[name], epi_values[name])

\* a cell that compares the prevalence of three runs and asserts that they
\* agree
Compare(from, to, first, second, third) ==
    /\ epi_pc = from
    /\ epi_values' = Put(epi_values, "differences",
                         Differences(PrevalenceOf(first), PrevalenceOf(second),
                                     PrevalenceOf(third)))
    /\ IF NoDiscrepancy(epi_values'["differences"])
       THEN epi_pc' = to /\ epi_error' = epi_error
       ELSE epi_pc' = "failed" /\ epi_error' = DiscrepancyMessage
    /\ UNCHANGED <<epi_notebook, epi_config, epi_parameters, epi_models>>
    /\ UNCHANGED not_epi_vars

\* the cell comparing the three ways of raising susceptibility
SusceptOutputsCell ==
    /\ epi_notebook = "matrices"
    /\ Compare("suscept_matrix_adjust", "suscept_outputs", "suscept_model",
               "suscept_matrix_adjust_model", "suscept_matrix_model")

InfectiousCell ==
    /\ epi_notebook = "matrices"
    /\ BuildAndRun("suscept_outputs", "infectious", "infectious_model",
                   InfectiousModel(epi_config))

InfectiousMatrixCell ==
    /\ epi_notebook = "matrices"
    /\ BuildAndRun("infectious", "infectious_matrix", "infectious_matrix_model",
                   InfectiousMatrixModel(epi_config))

InfectiousMatrixAdjustCell ==
    /\ epi_notebook = "matrices"
    /\ BuildAndRun("infectious_matrix", "infectious_matrix_adjust",
                   "infectious_matrix_adjust_model",
                   InfectiousMatrixAdjustModel(epi_config))

\* the cell comparing the three ways of raising infectiousness
InfectiousOutputsCell ==
    /\ epi_notebook = "matrices"
    /\ Compare("infectious_matrix_adjust", "infectious_outputs",
               "infectious_model", "infectious_matrix_model",
               "infectious_matrix_adjust_model")

-----------------------------------------------------------------------------
(* The cells of the notebook on assortative mixing *)

\* the cell of unstratified_model
UnstratifiedCell ==
    /\ epi_notebook = "assortative"
    /\ BuildAndRun("config", "unstratified", "unstratified_model",
                   UnstratifiedModel(epi_config))

\* the cell of simple_strat_model
SimpleStratCell ==
    /\ epi_notebook = "assortative"
    /\ BuildAndRun("unstratified", "simple_strat", "simple_strat_model",
                   SimpleStratModel(epi_config))

\* parameters.update({"intergroup_interaction": 0.5})
UpdateInteractionCell ==
    /\ epi_notebook = "assortative"
    /\ epi_pc = "simple_strat"
    /\ epi_parameters' =
           [epi_parameters EXCEPT !.intergroup_interaction = ReducedInteraction]
    /\ epi_pc' = "interaction"
    /\ UNCHANGED <<epi_notebook, epi_config, epi_models, epi_values, epi_error>>
    /\ UNCHANGED not_epi_vars

\* the cell that builds hetero_mix_model without running it
HeteroMixCell ==
    /\ epi_notebook = "assortative"
    /\ epi_pc = "interaction"
    /\ epi_models' = Put(epi_models, "hetero_mix_model",
                         HeteroMixModel(epi_config))
    /\ epi_pc' = "hetero_mix"
    /\ UNCHANGED <<epi_notebook, epi_config, epi_parameters, epi_values,
                   epi_error>>
    /\ UNCHANGED not_epi_vars

\* parameters["risk_per_contact"] *= 4.0 / 3.0; hetero_mix_model.run(parameters)
ScaleRiskCell ==
    /\ epi_notebook = "assortative"
    /\ epi_pc = "hetero_mix"
    /\ epi_parameters' =
           [epi_parameters EXCEPT
               !.risk_per_contact = DecMul(@, FourThirds)]
    /\ epi_values' = Put(epi_values, "hetero_mix_model",
                         RunModel(epi_models["hetero_mix_model"],
                                  epi_parameters'))
    /\ epi_pc' = "hetero_ran"
    /\ UNCHANGED <<epi_notebook, epi_config, epi_models, epi_error>>
    /\ UNCHANGED not_epi_vars

-----------------------------------------------------------------------------
(* The cells of the density-dependent models of the transmission notebook *)

\* the cell of sir_dens_model
SirDensCell ==
    /\ epi_notebook = "density"
    /\ IF PopulationAccepted(epi_config)
       THEN BuildAndRun("config", "sir_dens", "sir_dens_model",
                        SirDens(epi_config))
       ELSE Fail("config", SeedMessage)

\* the cell of large_pop_dens_model: the configuration and the parameters are
\* updated, then the model is built from them, run and read
LargePopDensCell ==
    /\ epi_notebook = "density"
    /\ epi_pc = "sir_dens"
    /\ epi_config' = LargePopConfig(epi_config)
    /\ epi_parameters' = LargePopParameters(epi_parameters)
    /\ IF PopulationAccepted(epi_config')
       THEN /\ epi_models' = Put(epi_models, "large_pop_dens_model",
                                 LargePopDens(epi_config'))
            /\ epi_values' = Put(epi_values, "large_pop_dens_model",
                                 RunModel(LargePopDens(epi_config'),
                                          epi_parameters'))
            /\ epi_pc' = "large_pop_dens"
            /\ epi_error' = epi_error
       ELSE /\ epi_error' = SeedMessage
            /\ epi_pc' = "failed"
            /\ UNCHANGED <<epi_models, epi_values>>
    /\ epi_notebook' = epi_notebook
    /\ UNCHANGED not_epi_vars

-----------------------------------------------------------------------------
(* The cells of the notebook on the reproduction number *)

\* sir_model = build_sir_model(model_config)
SirModelCell ==
    /\ epi_notebook = "reproduction"
    /\ epi_pc = "config"
    /\ epi_models' = Put(epi_models, "sir_model", BuildSirModelR0(epi_config))
    /\ epi_pc' = "sir_model"
    /\ UNCHANGED <<epi_notebook, epi_config, epi_parameters, epi_values,
                   epi_error>>
    /\ UNCHANGED not_epi_vars

\* sojourn_infectious = 1.0 / parameters["recovery"]
SojournCell ==
    /\ epi_notebook = "reproduction"
    /\ epi_pc = "sir_model"
    /\ epi_values' = Put(epi_values, "sojourn_infectious",
                         DecDiv(One, epi_parameters.recovery))
    /\ epi_pc' = "sojourn"
    /\ UNCHANGED <<epi_notebook, epi_config, epi_parameters, epi_models,
                   epi_error>>
    /\ UNCHANGED not_epi_vars

\* what a call of get_output_from_r0s leaves behind: the global parameters
\* with the last contact rate, the outputs of sir_model if it was the model
\* run, and the table returned
Returned(result) ==
    /\ epi_parameters' = result.parameters
    /\ IF result.raised
       THEN /\ epi_values' = epi_values
            /\ epi_pc' = "failed"
            /\ epi_error' = "not run"
       ELSE /\ epi_values' = Put(Put(epi_values, "sir_model", result.sir_values),
                                 "get_output_from_r0s", result.outputs)
            /\ epi_pc' = "collated"
            /\ epi_error' = epi_error
    /\ UNCHANGED <<epi_notebook, epi_config, epi_models>>
    /\ UNCHANGED not_epi_vars

\* get_output_from_r0s(model, r0s, compartment) called with the model that
\* sir_model names, or with one newly built by build_sir_model(model_config)
GetOutputFromR0sCall(is_sir_model, basic_reproduction_numbers, compartment) ==
    /\ epi_notebook = "reproduction"
    /\ epi_pc \in {"sojourn", "collated"}
    /\ Returned(GetOutputFromR0s(
           IF is_sir_model THEN epi_models["sir_model"]
           ELSE BuildSirModelR0(epi_config),
           is_sir_model, basic_reproduction_numbers, compartment))

\* a cell calling get_output_from_r0s
CollateCell ==
    \E is_sir_model \in BOOLEAN, basic_reproduction_numbers \in R0Lists,
       compartment \in {"infectious", "recovered"} :
        GetOutputFromR0sCall(is_sir_model, basic_reproduction_numbers,
                             compartment)

\* the cell that scales the configuration and builds sir_model anew, a model
\* that has not been run
RtConfigCell ==
    /\ epi_notebook = "reproduction"
    /\ epi_pc \in {"sojourn", "collated"}
    /\ epi_config' = RtConfig(epi_config)
    /\ epi_models' = Put(epi_models, "sir_model",
                         BuildSirModelR0(RtConfig(epi_config)))
    /\ epi_values' = Drop(epi_values, "sir_model")
    /\ epi_pc' = "rt_config"
    /\ UNCHANGED <<epi_notebook, epi_parameters, epi_error>>
    /\ UNCHANGED not_epi_vars

\* the cell that chooses r0, runs sir_model and works out the time-varying
\* reproduction number
RtCellWith(r0, params) ==
    /\ epi_parameters' = params
    /\ epi_values' =
           Put(Put(epi_values, "sir_model",
                   RunModel(epi_models["sir_model"], params)),
               "outputs",
               WithReproductionNumber(
                   RunModel(epi_models["sir_model"], params), r0, epi_config))
    /\ epi_pc' = "rt"
    /\ UNCHANGED <<epi_notebook, epi_config, epi_models, epi_error>>
    /\ UNCHANGED not_epi_vars

RtCell ==
    /\ epi_notebook = "reproduction"
    /\ epi_pc = "rt_config"
    /\ \E r0 \in R0Choices :
           RtCellWith(r0, Put(epi_parameters, "contact_rate",
                              DecDiv(r0, epi_values["sojourn_infectious"])))

-----------------------------------------------------------------------------
(* Specifications *)

Init == SirInit /\ FlowIdle /\ RiskIdle /\ McmcIdle /\ EpiIdle

Next == Prepare \/ ManualStep \/ Finish

\* the manual evaluation of notebook 07
Spec == Init /\ [][Next]_vars

FlowSpecInit == FlowInit /\ SirIdle /\ RiskIdle /\ McmcIdle /\ EpiIdle

FlowSpecNext ==
    BuildSingle \/ BuildCompeting \/ RunBegin \/ RunStep \/ RunEnd \/ GetOutputsDf

\* the transition-flow models of notebooks 03 and 04
FlowSpec == FlowSpecInit /\ [][FlowSpecNext]_vars

RiskSpecInit == RiskInit /\ SirIdle /\ FlowIdle /\ McmcIdle /\ EpiIdle

RiskSpecNext == RecalculateRate \/ RecalculateRisk

\* the risk and rate conversion of notebook 04
RiskSpec == RiskSpecInit /\ [][RiskSpecNext]_vars

McmcSpecInit == McmcInit /\ SirIdle /\ FlowIdle /\ RiskIdle /\ EpiIdle

McmcSpecNext ==
    \/ McmcRun \/ McmcInitialise \/ McmcPropose \/ McmcEvaluate
    \/ McmcDecide \/ McmcRecord \/ McmcReturn

\* the Metropolis sampler of notebook 20
McmcSpec == McmcSpecInit /\ [][McmcSpecNext]_vars

EpiSpecInit == EpiInit /\ SirIdle /\ FlowIdle /\ RiskIdle /\ McmcIdle

EpiSpecNext ==
    \/ SirFreqDeathsCell \/ SirDensDeathsCell
    \/ SirDemogCell \/ SirDemogRun
    \/ SirsCell \/ Sirs2Cell
    \/ BaseCell \/ SusceptCell \/ SusceptMatrixCell \/ SusceptMatrixAdjustCell
    \/ SusceptOutputsCell
    \/ InfectiousCell \/ InfectiousMatrixCell \/ InfectiousMatrixAdjustCell
    \/ InfectiousOutputsCell
    \/ UnstratifiedCell \/ SimpleStratCell \/ UpdateInteractionCell
    \/ HeteroMixCell \/ ScaleRiskCell
    \/ SirDensCell \/ LargePopDensCell
    \/ SirModelCell \/ SojournCell \/ CollateCell \/ RtConfigCell \/ RtCell

EpiSpec == EpiSpecInit /\ [][EpiSpecNext]_vars

-----------------------------------------------------------------------------
(* Notebook 07: what the claims speak of *)

\* the rows the loop has recorded so far
Recorded == IF pc = "not_run" THEN {} ELSE 0..t_idx

\* the sizes of the step before row k
Prev(k) == manual_calcs[k - 1]

\* contact_rate * infectious / total * susceptible on the sizes of row k
InfectionOf(k) ==
    DecMul(DecDiv(DecMul(parameters.contact_rate, manual_calcs[k][1]),
                  RowSum(manual_calcs[k])),
           manual_calcs[k][0])

\* recovery * infectious on the sizes of row k
RecoveryOf(k) == DecMul(parameters.recovery, manual_calcs[k][1])

\* C1: in the manual Euler loop the three compartment sizes recorded at every
\* time step add up to the initial total population.
C1_Conservation ==
    \A k \in Recorded :
        /\ RowSum(manual_calcs[k]) = model_config.population
        /\ RowSum(manual_calcs[k]) = RowSum(manual_calcs[0])

\* a completed run of at least two steps in which both flows moved people
C1_Witness ==
    /\ pc = "completed"
    /\ t_idx >= 2
    /\ manual_calcs[2][2] # manual_calcs[1][2]
    /\ manual_calcs[2][0] # manual_calcs[1][0]
    /\ manual_calcs[2] # manual_calcs[0]

\* C2: every recorded row after the first is the previous row plus time_step
\* times the net flow, the infection flow leaving susceptible for infectious
\* and the recovery flow leaving infectious for recovered, both evaluated on
\* the previous row.
C2_EulerStep ==
    \A k \in Recorded \ {0} :
        LET dt == model_config.time_step
            f == InfectionOf(k - 1)
            r == RecoveryOf(k - 1)
        IN  /\ manual_calcs[k][0] = DecSub(Prev(k)[0], DecMul(dt, f))
            /\ manual_calcs[k][1] = DecAdd(Prev(k)[1], DecMul(dt, DecSub(f, r)))
            /\ manual_calcs[k][2] = DecAdd(Prev(k)[2], DecMul(dt, r))

\* a second step taken with a step size other than 1 and both flows non-zero
C2_Witness ==
    /\ pc # "not_run"
    /\ t_idx >= 2
    /\ model_config.time_step # One
    /\ InfectionOf(1) # Zero
    /\ RecoveryOf(1) # Zero

\* end_time / time_step, as the cell computes it, is a whole number
WholeSteps ==
    LET q == DecDiv(model_config.end_time, model_config.time_step)
    IN  Dec(DecTrunc(q), 0) = q

\* row k of the table is labelled k * time_step, row 0 is time 0 with the
\* initial state and the last row is time end_time
TimesAsStated ==
    /\ DOMAIN explicit_outputs_df = 0..(num_steps - 1)
    /\ \A k \in DOMAIN explicit_outputs_df :
           explicit_outputs_df[k].index = DecMul(Dec(k, 0), model_config.time_step)
    /\ explicit_outputs_df[0].index = Zero
    /\ explicit_outputs_df[0].row = InitialRow(model_config)
    /\ explicit_outputs_df[num_steps - 1].index = model_config.end_time

\* C3 as stated: for every end_time > 0 and time_step > 0 row k of the output
\* table is labelled k * time_step, from time 0 to end_time inclusive.
C3_Original == pc = "completed" => TimesAsStated

\* C3 as amended: the same, whenever end_time / time_step is a whole number.
C3_TimesWhenWhole == (pc = "completed" /\ WholeSteps) => TimesAsStated

\* a completed table of three rows or more at a step size other than 1
C3_Witness ==
    /\ pc = "completed"
    /\ WholeSteps
    /\ num_steps >= 3
    /\ model_config.time_step # One

\* contact_rate * time_step * infectious / total exceeds 1 on row k, whose
\* susceptible size is positive
Overshoot(k) ==
    /\ DecLt(Zero, manual_calcs[k][0])
    /\ DecLt(One, DecDiv(DecMul(DecMul(parameters.contact_rate,
                                       model_config.time_step),
                                manual_calcs[k][1]),
                         RowSum(manual_calcs[k])))

\* C4: when contact_rate * time_step * infectious / total exceeds 1 at a step
\* with a positive susceptible size, the next susceptible size is negative
\* and is recorded as computed; the loop goes on from the negative value and
\* the table keeps it.
C4_NegativeKept ==
    \A k \in Recorded \ {0} :
        Overshoot(k - 1) =>
            /\ DecLt(manual_calcs[k][0], Zero)
            /\ manual_calcs[k][0] =
                   DecSub(Prev(k)[0],
                          DecMul(model_config.time_step, InfectionOf(k - 1)))
            /\ (k + 1) \in Recorded =>
                   manual_calcs[k + 1][0] =
                       DecSub(manual_calcs[k][0],
                              DecMul(model_config.time_step, InfectionOf(k)))
            /\ pc = "completed" =>
                   explicit_outputs_df[k].row[0] = manual_calcs[k][0]

\* a completed run with a negative susceptible size followed by a further step
C4_Witness ==
    /\ pc = "completed"
    /\ \E k \in Recorded \ {0} :
           /\ Overshoot(k - 1)
           /\ DecLt(manual_calcs[k][0], Zero)
           /\ (k + 1) \in Recorded
           /\ DecLt(explicit_outputs_df[k].row[0], Zero)

\* the phase moves, if at all, one place forward
PhaseForward ==
    \/ pc' = pc
    \/ pc = "not_run" /\ pc' = "running"
    \/ pc = "running" /\ pc' = "completed"

\* the time index moves, if at all, by one, and only while running
IndexForward ==
    \/ t_idx' = t_idx
    \/ /\ t_idx' = t_idx + 1
       /\ pc = "running"
       /\ pc' = "running"

\* in no state can two different statements run next
NoBranching ==
    /\ ~(CanPrepare /\ CanStep)
    /\ ~(CanPrepare /\ CanFinish)
    /\ ~(CanStep /\ CanFinish)

\* C9: a run moves only not_run -> running -> completed, its steps are taken
\* one at a time in increasing time-index order without branching, and it is
\* completed after exactly num_steps - 1 steps: until then a statement can
\* always run, and none can once it is completed.
C9_Lifecycle ==
    /\ [][PhaseForward /\ IndexForward]_vars
    /\ [](pc = "completed" => t_idx = num_steps - 1)
    /\ [](pc = "running" => t_idx <= num_steps - 1)
    /\ []NoBranching
    /\ [](pc # "completed" <=> (CanPrepare \/ CanStep \/ CanFinish))

\* a completed run of three steps
C9_Witness ==
    /\ pc = "completed"
    /\ num_steps = 4
    /\ t_idx = 3

\* C10: a recorded row is neither changed nor removed by a later step, and
\* the table of a completed run holds every row as it was recorded.
C10_RowsKept ==
    /\ [][\A k \in Recorded :
              /\ k \in DOMAIN manual_calcs'
              /\ manual_calcs'[k] = manual_calcs[k]]_vars
    /\ [](pc = "completed" =>
              /\ DOMAIN explicit_outputs_df = 0..(num_steps - 1)
              /\ \A k \in 0..(num_steps - 1) :
                     explicit_outputs_df[k].row = manual_calcs[k])

\* a completed run whose second and third rows differ from the first
C10_Witness ==
    /\ pc = "completed"
    /\ t_idx >= 2
    /\ explicit_outputs_df[1].row # explicit_outputs_df[0].row
    /\ explicit_outputs_df[2].row # explicit_outputs_df[1].row

-----------------------------------------------------------------------------
(* Notebooks 03 and 04: what the claims speak of *)

RECURSIVE PowAt(_, _, _)
PowAt(x, k, acc) ==
    IF k = 0 \/ acc.scale < 0 THEN acc ELSE PowAt(x, k - 1, DecMul(acc, x))

\* x^k
Pow(x, k) == PowAt(x, k, One)

\* the time steps solved so far
Solved == DOMAIN run_sizes

\* the rate of the single flow times the step lies in [0, 1]
GentleSingleRate ==
    /\ DecLe(Zero, flow_parameters["transition_rate"])
    /\ DecLe(DecMul(flow_parameters["transition_rate"], FlowTimeStep), One)

-----------------------------------------------------------------------------
(* Notebook 04, risk and rate: what the claims speak of *)

\* |a - b| <= tol
Within(a, b, tol) == DecLe(DecAbs(DecSub(a, b)), tol)

\* 1e-6
Tolerance == Dec(1, 6)

\* half a unit of the last decimal place kept by round()
HalfPlace == DecMul(Dec(5, 1), Dec(1, dec_places))

\* the unrounded rate gives the risk back within 1e-6, and the rounded rate
\* is within half a unit of the last place of the unrounded one
RoundTripOf(rate) ==
    /\ Within(RiskFromRate(rate, risk_time), risk_value, Tolerance)
    /\ Within(recalculated_rate, rate, HalfPlace)

-----------------------------------------------------------------------------
(* Notebook 20, the Metropolis sampler: what the claims speak of *)

\* a >= b, worked out from the sign of the difference
AtLeast(a, b) ==
    IF a = NegInf THEN b = NegInf
    ELSE IF b = NegInf THEN TRUE
    ELSE DecSign(DecSub(a, b)) >= 0

\* the sampler has decided on the proposal of this iteration
Decided == mcmc_pc = "decided"

\* C11: a proposal whose acceptance quantity is at least the current one is
\* always accepted; a proposal with a lower one is accepted or rejected by a
\* draw that gives 1 with probability exp(proposed - current), so that it
\* can be accepted only if that probability is above 0 and rejected only if
\* it is below 1.
C11_AcceptanceRule ==
    Decided =>
        IF AtLeast(proposed_acceptance_quantity, current_acceptance_quantity)
        THEN accept = 1
        ELSE /\ accept \in {0, 1}
             /\ accept_proba =
                    (IF proposed_acceptance_quantity = NegInf THEN Zero
                     ELSE Exp(DecSub(proposed_acceptance_quantity,
                                     current_acceptance_quantity)))
             /\ accept = 1 => DecLt(Zero, accept_proba)
             /\ accept = 0 => DecLt(accept_proba, One)

\* a proposal with a lower, finite acceptance quantity has been accepted by
\* the draw
C11_Witness ==
    /\ Decided
    /\ proposed_acceptance_quantity # NegInf
    /\ ~AtLeast(proposed_acceptance_quantity, current_acceptance_quantity)
    /\ DecLt(Zero, accept_proba)
    /\ DecLt(accept_proba, One)
    /\ accept = 1

\* the rows written so far are those of the iterations made so far
RowsWritten ==
    /\ DOMAIN mcmc_record = 0..(n_iter - 1)
    /\ \A i \in DOMAIN mcmc_record :
           IF i < i_run THEN mcmc_record[i].changed_position \in {Zero, One}
           ELSE mcmc_record[i] = EmptyRow

\* one run of the model before the loop, one for each proposal since
RunsMade ==
    model_runs =
        (IF mcmc_pc = "initialise" THEN 0 ELSE 1) + i_run
        + (IF mcmc_pc \in {"run", "evaluated", "decided"} THEN 1 ELSE 0)

\* a step of one iteration: propose, run the model and read its outputs,
\* evaluate, decide, record, in that order and each once
CycleStep ==
    /\ mcmc_pc = "loop" => mcmc_pc' \in {"proposed", "returned"}
    /\ mcmc_pc = "proposed" =>
           /\ mcmc_pc' = "run"
           /\ model_outputs' = ModelRun(proposed_parameters)
    /\ mcmc_pc = "run" =>
           /\ mcmc_pc' = "evaluated"
           /\ model_outputs = ModelRun(proposed_parameters)
    /\ mcmc_pc = "evaluated" => mcmc_pc' = "decided"
    /\ mcmc_pc = "decided" =>
           /\ mcmc_pc' = "loop"
           /\ i_run' = i_run + 1
           /\ mcmc_record'[i_run] # EmptyRow
           /\ \A i \in DOMAIN mcmc_record :
                  i # i_run => mcmc_record'[i] = mcmc_record[i]
    /\ proposed_parameters' # proposed_parameters => mcmc_pc = "loop"
    /\ mcmc_record' # mcmc_record => mcmc_pc = "decided"
    /\ mcmc_pc' = "returned" => i_run = n_iter

\* C12: the sampler is one sequential chain: each iteration makes one
\* propose, evaluate, accept or reject, record cycle; the run of the model
\* that evaluates a proposal is complete and read before the next proposal is
\* made; n_iter rows are recorded, row i by iteration i.
C12_SequentialChain ==
    /\ [](i_run <= n_iter /\ RowsWritten /\ RunsMade)
    /\ [][CycleStep]_vars

\* the sampler has returned after MaxIter iterations
C12_Witness ==
    /\ mcmc_pc = "returned"
    /\ n_iter = MaxIter
    /\ i_run = n_iter
    /\ model_runs = n_iter + 1
    /\ \A i \in 0..(n_iter - 1) : mcmc_record[i] # EmptyRow

\* the parameter values and acceptance quantity the chain was at before
\* iteration i: those of the row before, or the initial ones
Before(i) ==
    IF i = 0
    THEN [contact_rate |-> initial_parameters.contact_rate,
          recovery |-> initial_parameters.recovery,
          acceptance_quantity |->
              InfAdd(EvaluateLogPriors(initial_parameters),
                     EvaluateLogLikelihood(ModelRun(initial_parameters)))]
    ELSE [contact_rate |-> mcmc_record[i - 1].contact_rate,
          recovery |-> mcmc_record[i - 1].recovery,
          acceptance_quantity |-> mcmc_record[i - 1].acceptance_quantity]

\* the recording of a rejected proposal
RejectionStep ==
    (mcmc_pc = "decided" /\ accept = 0 /\ mcmc_pc' = "loop") =>
        /\ current_parameters' = current_parameters
        /\ current_acceptance_quantity' = current_acceptance_quantity
        /\ mcmc_record'[i_run] =
               [contact_rate |-> Before(i_run).contact_rate,
                recovery |-> Before(i_run).recovery,
                acceptance_quantity |-> Before(i_run).acceptance_quantity,
                changed_position |-> Zero]

\* C13: when a proposal is rejected, the current parameter set and the
\* current acceptance quantity stay as they are, and the row of the
\* iteration repeats the values of the row before (the initial parameters'
\* when iteration 0 is rejected) with changed_position = 0.
C13_RejectionKeeps == [][RejectionStep]_vars

\* iteration 0 was accepted and moved the chain, iteration 1 was rejected
C13_Witness ==
    /\ i_run >= 2
    /\ mcmc_record[0].changed_position = One
    /\ mcmc_record[0].contact_rate # initial_parameters.contact_rate
    /\ mcmc_record[1].changed_position = Zero
    /\ mcmc_record[1].contact_rate = mcmc_record[0].contact_rate
    /\ mcmc_record[1].acceptance_quantity = mcmc_record[0].acceptance_quantity
    /\ proposed_parameters # current_parameters

\* the current acceptance quantity is the one of the current parameter set
QuantityOfCurrent ==
    mcmc_pc \notin {"idle", "initialise", "initial_run"} =>
        current_acceptance_quantity =
            InfAdd(EvaluateLogPriors(current_parameters),
                   EvaluateLogLikelihood(ModelRun(current_parameters)))

\* the current parameter set and its quantity change in the accept branch
\* alone, after the quantity has first been set before the loop
OwnedByLoop ==
    /\ current_parameters' # current_parameters =>
           mcmc_pc = "decided" /\ accept = 1
    /\ current_acceptance_quantity' # current_acceptance_quantity =>
           \/ mcmc_pc = "decided" /\ accept = 1
           \/ mcmc_pc = "initial_run"

\* C14: throughout the loop the stored current acceptance quantity is the
\* one evaluated for the stored current parameter set, and nothing but the
\* accept branch of the loop changes either of them between iterations.
C14_QuantityOfCurrent == []QuantityOfCurrent /\ [][OwnedByLoop]_vars

\* the chain has moved to a parameter set with a finite acceptance quantity
C14_Witness ==
    /\ mcmc_pc = "loop"
    /\ i_run >= 1
    /\ current_parameters # initial_parameters
    /\ current_acceptance_quantity # NegInf
    /\ current_acceptance_quantity # NaN

-----------------------------------------------------------------------------
(* The mixing-matrix notebook: what the claims speak of *)

\* the three runs with the susceptibility of group1 raised
SusceptRuns ==
    {"suscept_model", "suscept_matrix_model", "suscept_matrix_adjust_model"}

\* the three runs with the infectiousness of group1 raised
InfectiousRuns ==
    {"infectious_model", "infectious_matrix_model",
     "infectious_matrix_adjust_model"}

\* the runs named have all been made
HaveRun(names) == names \subseteq DOMAIN epi_values

\* at every time, the prevalence of any two of the runs named differs by
\* less than the bound
Agree(names) ==
    \A a \in names : \A b \in names :
        \A k \in DOMAIN epi_values[a] :
            DecLt(DecAbs(DecSub(PrevalenceOf(a)[k], PrevalenceOf(b)[k])),
                  DiscrepancyBound)

\* the last row of a run
LastRow(name) == Len(epi_values[name])

-----------------------------------------------------------------------------
(* The transmission notebook: what the claims speak of *)

\* the configuration has a seed larger than its population
SeedExceeds == DecLt(epi_config.population, epi_config.seed)

\* some model built so far starts with a negative susceptible size
NegativeSusceptible ==
    \E name \in DOMAIN epi_models :
        epi_models[name].initial_population["susceptible"].size.neg

\* C17: get_sir_base_structure rejects, with the message "Seed larger than
\* population", every configuration whose seed exceeds its population, so a
\* model is never built with a negative initial susceptible size.
C17_SeedRejected ==
    /\ (epi_notebook = "transmission" /\ epi_pc # "config" /\ SeedExceeds)
           => (epi_pc = "failed" /\ epi_error = SeedMessage)
    /\ epi_notebook = "transmission" => ~NegativeSusceptible

\* the seed exceeds the population, the assertion has let the configuration
\* through, and the model built starts from a negative susceptible size
C17_Witness ==
    /\ epi_notebook = "transmission"
    /\ SeedExceeds
    /\ epi_pc = "sir_freq_deaths"
    /\ epi_error = ""
    /\ NegativeSusceptible
    /\ epi_values["sir_freq_deaths_model"][1]["susceptible"].neg

\* the total of the compartment sizes in row k of a run
TotalOf(name, k) ==
    DecSum([i \in DOMAIN epi_models[name].compartments |->
               epi_values[name][k][epi_models[name].compartments[i]]], 1)

RECURSIVE LivingFlowsFrom(_, _)
\* the flows other than death flows, from the i-th flow on
LivingFlowsFrom(flows, i) ==
    IF i > Len(flows) THEN <<>>
    ELSE (IF flows[i].type = "death" THEN <<>> ELSE <<flows[i]>>)
             \o LivingFlowsFrom(flows, i + 1)

\* the model with its death flows left out
WithoutDeaths(model) ==
    [model EXCEPT !.flows = LivingFlowsFrom(@, 1)]

\* crude_death_rate * time_step * x
DiedOf(x) ==
    DecMul(DecMul(epi_parameters.crude_death_rate, FlowTimeStep), x)

\* from row k to the next, the total falls by the deaths out of the total
TotalFalls(name, k) ==
    TotalOf(name, k + 1) = DecSub(TotalOf(name, k), DiedOf(TotalOf(name, k)))

\* from row k to the next, every compartment is what the other flows make
\* it, less its own deaths
OwnDeathsOnly(name, k) ==
    \A c \in Range(epi_models[name].compartments) :
        epi_values[name][k + 1][c] =
            DecSub(ModelStep(WithoutDeaths(epi_models[name]), epi_parameters,
                             epi_values[name][k])[c],
                   DiedOf(epi_values[name][k][c]))

\* the runs of the models with universal deaths and no births
DeathRuns == {"sir_freq_deaths_model", "sir_dens_deaths_model"}

-----------------------------------------------------------------------------
(* The demography notebook: what the claims speak of *)

\* the rate of the births of sir_demog_model on row k of its run
BirthsAt(k) ==
    ModelFlowRate(epi_models["sir_demog_model"], epi_parameters,
                  epi_values["sir_demog_model"][k],
                  epi_models["sir_demog_model"].flows[
                      Len(epi_models["sir_demog_model"].flows)])

\* the rate of all deaths on row k: the death rate times the total
DeathsAt(k) ==
    DecMul(epi_parameters.replenishment, TotalOf("sir_demog_model", k))

-----------------------------------------------------------------------------
(* The immunity notebook: what the claims speak of *)

\* row k of the run of sirs2_model shows the sizes of row k of sirs_model,
\* the susceptible split over susceptible and susceptible_2
SameDynamics(k) ==
    /\ epi_values["sirs2_model"][k]["infectious"]
           = epi_values["sirs_model"][k]["infectious"]
    /\ epi_values["sirs2_model"][k]["recovered"]
           = epi_values["sirs_model"][k]["recovered"]
    /\ DecAdd(epi_values["sirs2_model"][k]["susceptible"],
              epi_values["sirs2_model"][k]["susceptible_2"])
           = epi_values["sirs_model"][k]["susceptible"]

-----------------------------------------------------------------------------
(* The notebook on assortative mixing: what the claims speak of *)

\* the two groups are of equal size
EqualGroups == epi_parameters.prop1 = Dec(5, 1)

\* hetero_mix_model has been run with the risk per contact scaled up
HeteroRan == epi_notebook = "assortative" /\ epi_pc = "hetero_ran"

\* how far the prevalence of hetero_mix_model lies from that of
\* unstratified_model at row k
PrevalenceGap(k) ==
    DecAbs(DecSub(PrevalenceOf("hetero_mix_model")[k],
                  PrevalenceOf("unstratified_model")[k]))

\* what the cut of 4.0 / 3.0 may leave between the two
RoundingBound == Dec(1, 12)

-----------------------------------------------------------------------------
(* The density-dependent models of the transmission notebook: what the
   claims speak of *)

\* the factor by which the notebook scales its population
ScaleFactor == Dec(1000, 0)

\* row k of the run of large_pop_dens_model is that of sir_dens_model, every
\* compartment a thousand times the size
ScaledRow(large, small, k) ==
    \A c \in DOMAIN small[k] : large[k][c] = DecMul(ScaleFactor, small[k][c])

\* the rows of the run of large_pop_dens_model are those of sir_dens_model,
\* a thousand times the size
ScaledRun(large, small) ==
    /\ DOMAIN large = DOMAIN small
    /\ \A k \in DOMAIN small : ScaledRow(large, small, k)

\* the cell of large_pop_dens_model multiplies population and seed by 1000
\* and divides the contact rate by 1000
ScalesByFactor ==
    /\ epi_notebook = "density"
    /\ epi_pc = "sir_dens"
    /\ epi_pc' = "large_pop_dens"
    /\ epi_config'.population = DecMul(ScaleFactor, epi_config.population)
    /\ epi_config'.seed = DecMul(ScaleFactor, epi_config.seed)
    /\ epi_parameters.contact_rate
           = DecMul(ScaleFactor, epi_parameters'.contact_rate)

-----------------------------------------------------------------------------
(* The notebook on the reproduction number: what the claims speak of *)

\* the time-varying reproduction number has been worked out
RtKnown == epi_notebook = "reproduction" /\ epi_pc = "rt"

\* the reproduction number at row k of outputs
Rt(k) == epi_values["outputs"][k]["reproduction_number"]

\* the infectious size at row k of outputs
InfectiousOfRow(k) == epi_values["outputs"][k]["infectious"]

Expected(model, basic_reproduction_numbers, compartment) ==
    [i \in DOMAIN basic_reproduction_numbers |->
        [r0 |-> basic_reproduction_numbers[i],
         column |->
             Column(RunModel(model,
                        Put(epi_parameters, "contact_rate",
                            DecDiv(basic_reproduction_numbers[i],
                                   epi_values["sojourn_infectious"]))),
                    compartment)]]

\* C24: get_output_from_r0s(model, r0s, compartment) returns, for each r0 in
\* the order given, the compartment's trajectory of the model passed to it,
\* run with contact_rate = r0 / sojourn_infectious
C24_ReturnsRunsOfArgument ==
    [][\A is_sir_model \in BOOLEAN, basic_reproduction_numbers \in R0Lists,
          compartment \in {"infectious", "recovered"} :
           GetOutputFromR0sCall(is_sir_model, basic_reproduction_numbers,
                                compartment)
           => /\ epi_pc' = "collated"
              /\ epi_values'["get_output_from_r0s"]
                     = Expected(IF is_sir_model THEN epi_models["sir_model"]
                                ELSE BuildSirModelR0(epi_config),
                                basic_reproduction_numbers, compartment)]_vars

\* a call has returned a table of two reproduction numbers over three steps
\* whose columns are the same, though the argument run with the two contact
\* rates gives different ones
C24_Witness ==
    /\ epi_notebook = "reproduction"
    /\ epi_pc = "collated"
    /\ Len(epi_values["get_output_from_r0s"]) = 2
    /\ epi_values["get_output_from_r0s"][1].r0
           # epi_values["get_output_from_r0s"][2].r0
    /\ Len(epi_values["get_output_from_r0s"][1].column) = 4
    /\ epi_values["get_output_from_r0s"][1].column
           = epi_values["get_output_from_r0s"][2].column
    /\ Expected(epi_models["sir_model"],
                <<epi_values["get_output_from_r0s"][1].r0,
                  epi_values["get_output_from_r0s"][2].r0>>, "infectious")[1]
           # Expected(epi_models["sir_model"],
                      <<epi_values["get_output_from_r0s"][1].r0,
                        epi_values["get_output_from_r0s"][2].r0>>,
                      "infectious")[2]

-----------------------------------------------------------------------------
(* Notebook 07: the sizes kept within bounds *)

\* contact_rate * time_step <= 1 and recovery * time_step <= 1
GentleSteps ==
    /\ DecLe(DecMul(parameters.contact_rate, model_config.time_step), One)
    /\ DecLe(DecMul(parameters.recovery, model_config.time_step), One)

\* the initial sizes are not negative and their total is positive
SoundStart ==
    /\ \A i \in 0..2 : DecLe(Zero, InitialRow(model_config)[i])
    /\ DecLt(Zero, RowSum(InitialRow(model_config)))

\* no compartment of row k is negative
NonNegativeRow(k) == \A i \in 0..2 : DecLe(Zero, manual_calcs[k][i])

\* C25: from initial sizes that are not negative and have a positive total,
\* with contact_rate * time_step <= 1 and recovery * time_step <= 1, every
\* size the loop has recorded is non-negative
C25_SizesNonNegative ==
    (SoundStart /\ GentleSteps) => \A k \in Recorded : NonNegativeRow(k)

\* the loop has made three steps with contact_rate * time_step = 1, people
\* have been infected and have recovered, and no size is negative
C25_Witness ==
    /\ pc = "completed"
    /\ SoundStart
    /\ GentleSteps
    /\ DecMul(parameters.contact_rate, model_config.time_step) = One
    /\ num_steps = 4
    /\ DecLt(manual_calcs[3][0], manual_calcs[0][0])
    /\ DecLt(Zero, manual_calcs[3][2])
    /\ \A k \in Recorded : NonNegativeRow(k)

====
